---- MODULE Spec2Model ----
(***************************************************************************)
(* Reward integrity subsystem of the Renotags server: the points ledger    *)
(* (utils/pointsManager awardPoints), the task submission / review         *)
(* lifecycle (routes/tasks), the referral completion tracker               *)
(* (routes/referrals), the ban gate (middleware/banCheck) and the bot      *)
(* scorer in front of the signup (middleware/botPrevention).               *)
(*                                                                         *)
(* Every request handler is a sequence of store operations (each `await`   *)
(* on a mongoose call is one step).  A handler in flight is a record in    *)
(* `calls`; its local variables (the documents it has loaded) live in that *)
(* record, exactly as the handler keeps them in memory between awaits.     *)
(* A store operation may throw; `faults` counts the thrown operations.     *)
(***************************************************************************)
EXTENDS Integers, Sequences, FiniteSets, TLC

VARIABLES
    users,      \* User collection: user id -> document
    events,     \* OnboardingEvent collection, eventType 'points_awarded' (append-only)
    tasks,      \* Task collection: task id -> document
    userTasks,  \* UserTask collection: <<user id, task id>> -> document
    referrals,  \* Referral collection: <<referrer id, referred id>> -> document
    calls,      \* request slot -> handler in flight (its position and locals)
    last,       \* the response of the handler that returned last (until the next request)
    faults,     \* store operations that have thrown so far (reads, writes)
    credits,    \* history: every balance write awardPoints has made
    signals,    \* BotDetection collection, in the order of creation
    signups,    \* OnboardingEvent collection, eventType 'onboarding_started'
    now         \* the server's clock, what `new Date()` returns

vars == <<users, events, tasks, userTasks, referrals, calls, last, faults,
          credits, signals, signups, now>>

----------------------------------------------------------------------------
(* Bounds of the model *)

\* longest points_awarded log explored
MaxEvents == 3
\* longest points_awarded log explored for the referral tracker
MaxReferralEvents == 4
\* most store operations that are made to throw in one run
MaxFaults == 2
\* request slots of the concurrent specifications
NumProcs == 2
\* most signups explored with one email address
MaxSignups == 1

\* the last tick of the clock
MaxTime == 4

\* signup events of other accounts when a run of signups starts
MaxSignupEvents == 3

\* signals in the store when a run of signups starts
MaxSeeds == 2

\* signals a run of signups may add
MaxSignals == 1

(* Program constants *)

\* the rolling window of one hour, in ticks of the model clock
HourTicks == 1

ReferrerReward == 150
ReferredReward == 100

----------------------------------------------------------------------------
(* Identities *)

UserIds == {"u1", "u2", "u3"}
TaskIds == {"k1"}
Procs == 1..NumProcs
SeqProcs == {1}
NoId == "none"

\* a date that is not set
NoTime == -1

\* amounts a caller may pass to awardPoints
Amounts == {-1, 0, 1, 2}
\* amounts passed by the concurrent callers
ConcAmounts == {1, 2}
\* pointsReward values an administrator may give a task (z.number().int().min(0))
Rewards == {0, 5}

\* renopaysTag of each user that has created one
TagOf(u) == IF u = "u1" THEN "tag1" ELSE IF u = "u2" THEN "tag2" ELSE "tag3"

----------------------------------------------------------------------------
(* Documents *)

\* `gen` tells apart the documents (the _id values) that successive signups
\* with one email create
NewUser ==
    [exists |-> FALSE, gen |-> 0, points |-> 0,
     emailVerified |-> FALSE, telegramVerified |-> FALSE,
     telegramFollowed |-> FALSE, renopaysTag |-> NoId,
     referredBy |-> NoId, successfulReferrals |-> 0,
     banned |-> FALSE, banReason |-> NoId, bannedUntil |-> NoTime,
     createdAt |-> 0]

\* `copies` counts the documents of the collection that hold the key
NoUserTask ==
    [exists |-> FALSE, copies |-> 0, status |-> "pending", pointsAwarded |-> FALSE,
     submissionLink |-> NoId, completedAt |-> FALSE, reviewedBy |-> NoId,
     rejectionReason |-> NoId]

NoReferral ==
    [exists |-> FALSE, copies |-> 0, status |-> "pending",
     emailVerified |-> FALSE, telegramVerified |-> FALSE,
     telegramFollowed |-> FALSE, renopaysTagCreated |-> FALSE,
     allVerificationsComplete |-> FALSE, pointsAwarded |-> FALSE,
     completedAt |-> FALSE]

NoTask ==
    [exists |-> FALSE, isActive |-> FALSE, requiresVerification |-> FALSE,
     pointsReward |-> 0]

\* the awardPoints invocation a handler is waiting on
IdleAward ==
    [pc |-> "idle", uid |-> NoId, gen |-> 0, amount |-> 0, reason |-> NoId, ref |-> NoId,
     old |-> 0, success |-> FALSE, error |-> NoId, reads |-> 0, writes |-> 0]

Snapshot ==
    [users |-> users, events |-> events, userTasks |-> userTasks,
     referrals |-> referrals, signals |-> signals, signups |-> signups]

NoSnapshot ==
    [users |-> <<>>, events |-> <<>>, userTasks |-> <<>>, referrals |-> <<>>,
     signals |-> <<>>, signups |-> <<>>]

\* a handler in flight: its request, the documents it has loaded, its result
IdleCall ==
    [op |-> "idle", pc |-> "idle", uid |-> NoId, tid |-> NoId, arg |-> NoId,
     user |-> NewUser, task |-> NoTask, ut |-> NoUserTask,
     referrer |-> NoId, rdoc |-> NewUser, referral |-> NoReferral,
     aw |-> IdleAward, awards |-> 0, first |-> FALSE, second |-> FALSE,
     awarded |-> FALSE, res |-> NoId, pre |-> NoSnapshot,
     ip |-> NoId, ua |-> NoId, at |-> NoTime, banReason |-> NoId,
     bannedUntil |-> NoTime, count |-> 0, score |-> 0]

NoResponse ==
    [op |-> "none", uid |-> NoId, tid |-> NoId, arg |-> NoId, amount |-> 0,
     res |-> NoId,
     success |-> FALSE, reads |-> 0, writes |-> 0, reward |-> 0,
     awards |-> 0, first |-> FALSE, second |-> FALSE,
     awarded |-> FALSE, pre |-> NoSnapshot,
     ip |-> NoId, ua |-> NoId, at |-> NoTime, banReason |-> NoId,
     bannedUntil |-> NoTime, score |-> 0]

----------------------------------------------------------------------------
(* Pure helpers of the ledger *)

RECURSIVE SumAmounts(_, _)
\* sum of the amounts of u's points_awarded events in log
SumAmounts(log, u) ==
    IF log = <<>> THEN 0
    ELSE (IF Head(log).userId = u THEN Head(log).amount ELSE 0)
         + SumAmounts(Tail(log), u)

\* the points_awarded events of log with the given reason and reference
EventsFor(log, u, reason, ref) ==
    {i \in 1..Len(log) :
        log[i].userId = u /\ log[i].reason = reason /\ log[i].ref = ref}

InvalidAmount_negativeOnly(amount) == amount < 0

\* pointsManager: `if (amount <= 0)`
InvalidAmount(amount) == amount <= 0

NewBalance_overwrite(oldBalance, amount) == amount

\* pointsManager: `const newBalance = oldBalance + amount`
NewBalance(oldBalance, amount) == oldBalance + amount

\* whether one more store operation may be made to throw
CanFault == faults.read + faults.write < faults.budget

Faulted(kind) ==
    IF kind = "read" THEN [faults EXCEPT !.read = @ + 1]
    ELSE [faults EXCEPT !.write = @ + 1]

AwardFailed(aw, msg) ==
    [aw EXCEPT !.pc = "ret", !.success = FALSE, !.error = msg]

\* the User document with this _id is in the collection
UserById(uid, gen) == users[uid].exists /\ users[uid].gen = gen

BeginAward(uid, gen, amount, reason, ref) ==
    [IdleAward EXCEPT !.pc = "validate", !.uid = uid, !.gen = gen,
                      !.amount = amount,
                      !.reason = reason, !.ref = ref]

----------------------------------------------------------------------------
(* awardPoints, one action per await *)

\* `if (amount <= 0) return { success: false, ... }`, before any store access
AwardValidate(p) ==
    LET aw == calls[p].aw IN
    /\ aw.pc = "validate"
    /\ calls' = [calls EXCEPT ![p].aw =
                    IF InvalidAmount(aw.amount)
                    THEN AwardFailed(aw, "Points amount must be positive")
                    ELSE [aw EXCEPT !.pc = "find"]]
    /\ UNCHANGED <<users, events, tasks, userTasks, referrals, last, faults, credits,
                 signals, signups, now>>

\* `const user = await User.findById(userId)`
AwardFind(p) ==
    LET aw == calls[p].aw IN
    /\ aw.pc = "find"
    /\ \E throws \in BOOLEAN :
        /\ throws => CanFault
        /\ faults' = IF throws THEN Faulted("read") ELSE faults
        /\ calls' = [calls EXCEPT ![p].aw =
              LET a == [aw EXCEPT !.reads = @ + 1] IN
              IF throws THEN AwardFailed(a, "Failed to award points")
              ELSE IF ~UserById(aw.uid, aw.gen)
              THEN AwardFailed(a, "User not found")
              ELSE [a EXCEPT !.pc = "save", !.old = users[aw.uid].points]]
    /\ UNCHANGED <<users, events, tasks, userTasks, referrals, last, credits,
                 signals, signups, now>>

\* `user.points = newBalance; await user.save()`
AwardSave(p) ==
    LET aw == calls[p].aw IN
    /\ aw.pc = "save"
    /\ \E throws \in BOOLEAN :
        /\ throws => CanFault
        /\ faults' = IF throws THEN Faulted("write") ELSE faults
        /\ IF throws \/ ~UserById(aw.uid, aw.gen)
           THEN /\ calls' = [calls EXCEPT ![p].aw =
                                AwardFailed(aw, "Failed to award points")]
                /\ UNCHANGED <<users, credits>>
           ELSE /\ users' = [users EXCEPT ![aw.uid].points =
                                NewBalance(aw.old, aw.amount)]
                /\ credits' = Append(credits,
                                [userId |-> aw.uid, amount |-> aw.amount,
                                 reason |-> aw.reason, ref |-> aw.ref])
                /\ calls' = [calls EXCEPT ![p].aw =
                                [aw EXCEPT !.pc = "create", !.writes = @ + 1]]
    /\ UNCHANGED <<events, tasks, userTasks, referrals, last,
                 signals, signups, now>>

\* `await OnboardingEvent.create({ eventType: 'points_awarded', ... })`
AwardCreate(p) ==
    LET aw == calls[p].aw IN
    /\ aw.pc = "create"
    /\ \E throws \in BOOLEAN :
        /\ throws => CanFault
        /\ faults' = IF throws THEN Faulted("write") ELSE faults
        /\ IF throws
           THEN /\ calls' = [calls EXCEPT ![p].aw =
                                AwardFailed(aw, "Failed to award points")]
                /\ UNCHANGED events
           ELSE /\ events' = Append(events,
                                [userId |-> aw.uid, amount |-> aw.amount,
                                 reason |-> aw.reason, ref |-> aw.ref])
                /\ calls' = [calls EXCEPT ![p].aw =
                                [aw EXCEPT !.pc = "ret", !.success = TRUE,
                                           !.writes = @ + 1]]
    /\ UNCHANGED <<users, tasks, userTasks, referrals, last, credits,
                 signals, signups, now>>

\* a caller invokes awardPoints(userId, amount, reason)
CallAward(p, u, amount) ==
    /\ calls[p].op = "idle"
    /\ Len(events) + Cardinality({q \in Procs : calls[q].op # "idle"}) < MaxEvents
    /\ calls' = [calls EXCEPT ![p] =
                    [IdleCall EXCEPT !.op = "award", !.pc = "award", !.uid = u,
                                     !.aw = BeginAward(u, users[u].gen, amount,
                                                       "direct", NoId),
                                     !.pre = Snapshot]]
    /\ last' = NoResponse
    /\ UNCHANGED <<users, events, tasks, userTasks, referrals, faults, credits,
                 signals, signups, now>>

\* awardPoints returns `{ success, newBalance, error? }` to its caller
ReturnAward(p) ==
    LET c == calls[p] IN
    /\ c.op = "award"
    /\ c.aw.pc = "ret"
    /\ last' = [NoResponse EXCEPT !.op = "award", !.uid = c.uid,
                    !.amount = c.aw.amount, !.res = c.aw.error,
                    !.success = c.aw.success, !.reads = c.aw.reads,
                    !.writes = c.aw.writes, !.pre = c.pre]
    /\ calls' = [calls EXCEPT ![p] = IdleCall]
    /\ UNCHANGED <<users, events, tasks, userTasks, referrals, faults, credits,
                 signals, signups, now>>

----------------------------------------------------------------------------
(* Initial states *)

\* no store operation has thrown; at most `budget` of them will
NoFaults(budget) == [read |-> 0, write |-> 0, budget |-> budget]

\* some registered accounts, none of which has earned points yet
InitAccounts(registrations) ==
    /\ \E registered \in registrations :
          users = [u \in UserIds |->
                      IF u \in registered
                      THEN [NewUser EXCEPT !.exists = TRUE] ELSE NewUser]
    /\ events = <<>>
    /\ credits = <<>>
    /\ userTasks = [k \in UserIds \X TaskIds |-> NoUserTask]
    /\ referrals = [k \in UserIds \X UserIds |-> NoReferral]
    /\ calls = [p \in Procs |-> IdleCall]
    /\ last = NoResponse
    /\ signals = <<>>
    /\ signups = <<>>
    /\ now = HourTicks + 1

InitStore == InitAccounts(SUBSET {"u1", "u2"}) /\ tasks = [t \in TaskIds |-> NoTask]

InitLedger == InitStore /\ faults = NoFaults(MaxFaults)

\* concurrent runs are explored with a store that never throws
InitLedgerConc == InitStore /\ faults = NoFaults(0)

AwardSteps(p) ==
    \/ AwardValidate(p)
    \/ AwardFind(p)
    \/ AwardSave(p)
    \/ AwardCreate(p)
    \/ ReturnAward(p)

\* award calls made one after the other
NextLedger ==
    \E p \in SeqProcs :
        \/ \E u \in UserIds, amount \in Amounts : CallAward(p, u, amount)
        \/ AwardSteps(p)

\* award calls made concurrently
NextLedgerConc ==
    \E p \in Procs :
        \/ \E u \in UserIds, amount \in ConcAmounts : CallAward(p, u, amount)
        \/ AwardSteps(p)

SpecLedger == InitLedger /\ [][NextLedger]_vars

SpecLedgerConc == InitLedgerConc /\ [][NextLedgerConc]_vars

Quiescent == \A p \in Procs : calls[p].op = "idle"

----------------------------------------------------------------------------
(* Task lifecycle: routes/tasks.ts *)

\* submission links a user may post
Links == {"", "not a url", "https://x.example/post"}

\* `new URL(submissionLink)` does not throw
ValidUrl(link) == link = "https://x.example/post"


ServerError == "Internal server error"
Ok == "success"

\* the handler ends with the given response
Finish(c, msg) == [c EXCEPT !.pc = "ret", !.res = msg]

\* a handler that may award starts only while the log has room for the award
LogHasRoom(n) ==
    Len(events) + 2 * Cardinality({q \in Procs : calls[q].op # "idle"}) + n
        <= MaxEvents

\* a request arrives: the first middleware or the handler starts at `pc`
BeginRequest(p, op, pc, u, t, arg, ip, ua) ==
    /\ calls[p].op = "idle"
    /\ calls' = [calls EXCEPT ![p] =
                    [IdleCall EXCEPT !.op = op, !.pc = pc, !.uid = u,
                                     !.tid = t, !.arg = arg, !.ip = ip,
                                     !.ua = ua, !.pre = Snapshot]]
    /\ last' = NoResponse
    /\ UNCHANGED <<users, events, tasks, userTasks, referrals, faults, credits,
                 signals, signups, now>>

BeginCall(p, op, u, t, arg) ==
    /\ calls[p].op = "idle"
    /\ calls' = [calls EXCEPT ![p] =
                    [IdleCall EXCEPT !.op = op, !.pc = "start", !.uid = u,
                                     !.tid = t, !.arg = arg, !.pre = Snapshot]]
    /\ last' = NoResponse
    /\ UNCHANGED <<users, events, tasks, userTasks, referrals, faults, credits,
                 signals, signups, now>>

\* a read of the store by handler `op` at position `pc`: it may throw
\* (the route's catch block passes the error on: a 500), else the handler
\* goes on as `next` says
ReadStep(p, op, pc, next) ==
    LET c == calls[p] IN
    /\ c.op = op
    /\ c.pc = pc
    /\ \E throws \in BOOLEAN :
        /\ throws => CanFault
        /\ faults' = IF throws THEN Faulted("read") ELSE faults
        /\ calls' = [calls EXCEPT ![p] =
                        IF throws THEN Finish(c, ServerError) ELSE next]
    /\ UNCHANGED <<users, events, tasks, userTasks, referrals, last, credits,
                 signals, signups, now>>

\* `const user = await User.findOne({ email: userEmail })`, 404 when null
LoadUser(p, op) ==
    LET c == calls[p] IN
    ReadStep(p, op, "findUser",
        IF ~users[c.uid].exists THEN Finish(c, "User not found")
        ELSE [c EXCEPT !.pc = "findTask", !.user = users[c.uid]])

\* the UserTask statuses that submit refuses: `['approved', 'completed']`
SubmitRefused_approvedOnly(status) == status = "approved"

SubmitRefused(status) == status \in {"approved", "completed"}

\* the UserTask statuses that complete refuses: `['completed', 'approved']`
CompleteRefused_approvedOnly(status) == status = "approved"

CompleteRefused_completedOnly(status) == status = "completed"

CompleteRefused(status) == status \in {"completed", "approved"}

\* approve and reject require `userTask.status === 'submitted'`
Reviewable_any(status) == TRUE

Reviewable_orRejected(status) == status \in {"submitted", "rejected"}

Reviewable(status) == status = "submitted"

\* `if (task.pointsReward > 0)`
Rewarded(reward) == reward > 0

(* POST /:taskId/submit *)

CallSubmit(p, u, t, link) == BeginCall(p, "submit", u, t, link)

\* `if (!submissionLink)` and `new URL(submissionLink)`: 400 before any read
SubmitValidate(p) ==
    LET c == calls[p] IN
    /\ c.op = "submit"
    /\ c.pc = "start"
    /\ calls' = [calls EXCEPT ![p] =
                    IF c.arg = "" THEN Finish(c, "Submission link is required")
                    ELSE IF ~ValidUrl(c.arg) THEN Finish(c, "Invalid URL format")
                    ELSE [c EXCEPT !.pc = "findUser"]]
    /\ UNCHANGED <<users, events, tasks, userTasks, referrals, last, faults, credits,
                 signals, signups, now>>

\* `Task.findOne({ _id: taskId, isActive: true })`, 404 when null
SubmitFindTask(p) ==
    LET c == calls[p] IN
    ReadStep(p, "submit", "findTask",
        IF ~(tasks[c.tid].exists /\ tasks[c.tid].isActive)
        THEN Finish(c, "Task not found or inactive")
        ELSE [c EXCEPT !.pc = "findUserTask", !.task = tasks[c.tid]])

\* `UserTask.findOne({ userId, taskId })`; 400 when approved or completed
SubmitFindUserTask(p) ==
    LET c == calls[p]
        ut == userTasks[<<c.uid, c.tid>>] IN
    ReadStep(p, "submit", "findUserTask",
        IF ut.exists /\ SubmitRefused(ut.status)
        THEN Finish(c, "Task already completed")
        ELSE [c EXCEPT !.pc = "write", !.ut = ut])

\* `doc.save()` of a loaded document after assignments: mongoose sends the
\* modified paths only, and a path assigned the value it was loaded with is
\* not modified
SavedDoc(stored, loaded, assigned) ==
    [f \in DOMAIN stored |->
        IF assigned[f] # loaded[f] THEN assigned[f] ELSE stored[f]]

DuplicateKey_noIndex(stored) == FALSE

\* the unique index of the collection refuses the insert of a second
\* document with the key of a stored one
DuplicateKey(stored) == stored.exists

\* a write of the UserTask document `k`: `doc.save()` of the loaded document
\* as `assigned`, or `UserTask.create` (the unique index { userId, taskId }
\* refuses a second document); either may throw
WriteUserTask(p, op, pc, k, assigned, created, next) ==
    LET c == calls[p] IN
    /\ c.op = op
    /\ c.pc = pc
    /\ \E throws \in BOOLEAN :
        /\ throws => CanFault
        /\ faults' = IF throws THEN Faulted("write") ELSE faults
        /\ IF throws \/ (~c.ut.exists /\ DuplicateKey(userTasks[k]))
           THEN /\ calls' = [calls EXCEPT ![p] = Finish(c, ServerError)]
                /\ UNCHANGED userTasks
           ELSE /\ userTasks' = [userTasks EXCEPT ![k] =
                                    IF c.ut.exists
                                    THEN SavedDoc(userTasks[k], c.ut, assigned)
                                    ELSE [created EXCEPT !.copies =
                                              userTasks[k].copies + 1]]
                /\ calls' = [calls EXCEPT ![p] = next]
    /\ UNCHANGED <<users, events, tasks, referrals, last, credits,
                 signals, signups, now>>

\* `userTask.status = 'submitted'; ...; save()` or `UserTask.create({...})`
SubmitWrite(p) ==
    LET c == calls[p]
        k == <<c.uid, c.tid>> IN
    WriteUserTask(p, "submit", "write", k,
        [c.ut EXCEPT !.status = "submitted", !.submissionLink = c.arg],
        [NoUserTask EXCEPT !.exists = TRUE, !.status = "submitted",
                           !.submissionLink = c.arg],
        Finish(c, Ok))

(* POST /:taskId/complete *)

CallComplete(p, u, t) == LogHasRoom(1) /\ BeginCall(p, "complete", u, t, NoId)

CompleteStart(p) ==
    LET c == calls[p] IN
    /\ c.op = "complete"
    /\ c.pc = "start"
    /\ calls' = [calls EXCEPT ![p].pc = "findUser"]
    /\ UNCHANGED <<users, events, tasks, userTasks, referrals, last, faults, credits,
                 signals, signups, now>>

\* `Task.findOne({ _id, isActive: true })`; 400 when `task.requiresVerification`
CompleteFindTask(p) ==
    LET c == calls[p] IN
    ReadStep(p, "complete", "findTask",
        IF ~(tasks[c.tid].exists /\ tasks[c.tid].isActive)
        THEN Finish(c, "Task not found or inactive")
        ELSE IF tasks[c.tid].requiresVerification
        THEN Finish(c, "This task requires submission for review")
        ELSE [c EXCEPT !.pc = "findUserTask", !.task = tasks[c.tid]])

\* `UserTask.findOne({ userId, taskId })`; 400 when completed or approved
CompleteFindUserTask(p) ==
    LET c == calls[p]
        ut == userTasks[<<c.uid, c.tid>>] IN
    ReadStep(p, "complete", "findUserTask",
        IF ut.exists /\ CompleteRefused(ut.status)
        THEN Finish(c, "Task already completed")
        ELSE [c EXCEPT !.pc = "write", !.ut = ut])

\* what the handler does after the status write: award when the task pays
AfterStatusWrite(c, reason) ==
    IF Rewarded(c.task.pointsReward)
    THEN [c EXCEPT !.pc = "award",
                   !.aw = BeginAward(c.uid, c.user.gen, c.task.pointsReward,
                                     reason, c.tid)]
    ELSE Finish(c, Ok)

\* `userTask.status = 'completed'; ...; save()` or `UserTask.create({...})`
CompleteWrite(p) ==
    LET c == calls[p]
        k == <<c.uid, c.tid>> IN
    WriteUserTask(p, "complete", "write", k,
        [c.ut EXCEPT !.status = "completed", !.completedAt = TRUE],
        [NoUserTask EXCEPT !.exists = TRUE, !.status = "completed",
                           !.completedAt = TRUE],
        AfterStatusWrite(c, "task_completed"))

\* `if (pointsResult.success) { userTask.pointsAwarded = true; save() }`
MarkAwarded(p, op) ==
    LET c == calls[p]
        k == <<c.uid, c.tid>> IN
    /\ c.op = op
    /\ c.pc = "award"
    /\ c.aw.pc = "ret"
    /\ IF ~c.aw.success
       THEN /\ calls' = [calls EXCEPT ![p] = Finish(c, Ok)]
            /\ UNCHANGED <<userTasks, faults>>
       ELSE \E throws \in BOOLEAN :
            /\ throws => CanFault
            /\ faults' = IF throws THEN Faulted("write") ELSE faults
            /\ IF throws
               THEN /\ calls' = [calls EXCEPT ![p] = Finish(c, ServerError)]
                    /\ UNCHANGED userTasks
               ELSE /\ userTasks' = [userTasks EXCEPT ![k].pointsAwarded = TRUE]
                    /\ calls' = [calls EXCEPT ![p] =
                                    Finish([c EXCEPT !.awarded = TRUE], Ok)]
    /\ UNCHANGED <<users, events, tasks, referrals, last, credits,
                 signals, signups, now>>

(* POST /submissions/:submissionId/approve and /reject (administrator) *)

CallApprove(p, u, t) == LogHasRoom(1) /\ BeginCall(p, "approve", u, t, NoId)

\* `UserTask.findById(submissionId).populate('taskId')`; 404 when null,
\* 400 unless the status is submitted
ReviewFind(p, op) ==
    LET c == calls[p]
        ut == userTasks[<<c.uid, c.tid>>] IN
    ReadStep(p, op, "start",
        IF ~ut.exists THEN Finish(c, "Submission not found")
        ELSE IF ~Reviewable(ut.status)
        THEN Finish(c, "Submission is not in submitted status")
        ELSE [c EXCEPT !.pc = "write", !.ut = ut, !.task = tasks[c.tid]])

\* `userTask.status = 'approved'; reviewedAt; reviewedBy; completedAt; save()`
\* then `task.pointsReward` on the populated task (null when it was deleted:
\* a TypeError, passed on as a 500); the award goes to `userTask.userId`,
\* the account that created the record
ApproveWrite(p) ==
    LET c == calls[p]
        k == <<c.uid, c.tid>> IN
    WriteUserTask(p, "approve", "write", k,
        [c.ut EXCEPT !.status = "approved", !.reviewedBy = "admin",
                     !.completedAt = TRUE],
        NoUserTask,
        IF ~c.task.exists THEN Finish(c, ServerError)
        ELSE AfterStatusWrite(c, "task_approved"))

\* `userTask.status = 'rejected'; rejectionReason = reason || default; save()`
RejectWrite(p) ==
    LET c == calls[p]
        k == <<c.uid, c.tid>> IN
    WriteUserTask(p, "reject", "write", k,
        [c.ut EXCEPT !.status = "rejected", !.reviewedBy = "admin",
             !.rejectionReason =
                 IF c.arg = NoId
                 THEN "Submission does not meet requirements" ELSE c.arg],
        NoUserTask,
        Finish(c, Ok))

\* the handler sends its response
Respond(p) ==
    LET c == calls[p] IN
    /\ c.op \notin {"idle", "award"}
    /\ c.pc = "ret"
    /\ last' = [NoResponse EXCEPT !.op = c.op, !.uid = c.uid, !.tid = c.tid,
                    !.arg = c.arg, !.res = c.res, !.success = (c.res = Ok),
                    !.reward = c.task.pointsReward, !.awarded = c.awarded,
                    !.awards = c.awards, !.first = c.first,
                    !.second = c.second, !.pre = c.pre,
                    !.ip = c.ip, !.ua = c.ua, !.at = c.at,
                    !.banReason = c.banReason,
                    !.bannedUntil = c.bannedUntil, !.score = c.score]
    /\ calls' = [calls EXCEPT ![p] = IdleCall]
    /\ UNCHANGED <<users, events, tasks, userTasks, referrals, faults, credits,
                 signals, signups, now>>

(* PATCH /:taskId and DELETE /:taskId (administrator) *)

\* `Task.findByIdAndUpdate(taskId, updateData)`: one atomic store operation
PatchTask(p, t, isActive, requiresVerification, pointsReward) ==
    /\ calls[p].op = "idle"
    /\ tasks[t].exists
    /\ tasks' = [tasks EXCEPT ![t] =
                    [exists |-> TRUE, isActive |-> isActive,
                     requiresVerification |-> requiresVerification,
                     pointsReward |-> pointsReward]]
    /\ tasks' # tasks
    /\ last' = NoResponse
    /\ UNCHANGED <<users, events, userTasks, referrals, calls, faults, credits,
                 signals, signups, now>>

\* `Task.findByIdAndDelete(taskId)`
DeleteTask(p, t) ==
    /\ calls[p].op = "idle"
    /\ tasks[t].exists
    /\ tasks' = [tasks EXCEPT ![t] = NoTask]
    /\ last' = NoResponse
    /\ UNCHANGED <<users, events, userTasks, referrals, calls, faults, credits,
                 signals, signups, now>>

\* one registered account (the other id is unknown to the store) and any
\* task an administrator has created
InitTasks ==
    /\ InitAccounts({{"u1"}})
    /\ \E active, review \in BOOLEAN, reward \in Rewards :
          tasks = [t \in TaskIds |->
                      [exists |-> TRUE, isActive |-> active,
                       requiresVerification |-> review,
                       pointsReward |-> reward]]
    /\ faults = NoFaults(MaxFaults)

TaskSteps(p) ==
    \/ SubmitValidate(p)
    \/ LoadUser(p, "submit")
    \/ SubmitFindTask(p)
    \/ SubmitFindUserTask(p)
    \/ SubmitWrite(p)
    \/ CompleteStart(p)
    \/ LoadUser(p, "complete")
    \/ CompleteFindTask(p)
    \/ CompleteFindUserTask(p)
    \/ CompleteWrite(p)
    \/ MarkAwarded(p, "complete")
    \/ ReviewFind(p, "approve")
    \/ ApproveWrite(p)
    \/ MarkAwarded(p, "approve")
    \/ ReviewFind(p, "reject")
    \/ RejectWrite(p)
    \/ Respond(p)

TaskCalls(p) ==
    \/ \E u \in UserIds, t \in TaskIds, link \in Links : CallSubmit(p, u, t, link)
    \/ \E u \in UserIds, t \in TaskIds : CallComplete(p, u, t)
    \/ \E u \in UserIds, t \in TaskIds : CallApprove(p, u, t)
    \/ \E u \in UserIds, t \in TaskIds, reason \in {NoId, "spam"} : BeginCall(p, "reject", u, t, reason)
    \/ \E t \in TaskIds, active, review \in BOOLEAN, reward \in Rewards :
          PatchTask(p, t, active, review, reward)
    \/ \E t \in TaskIds : DeleteTask(p, t)

\* task requests and administrator edits made one after the other
NextTasks ==
    \E p \in SeqProcs :
        \/ TaskCalls(p)
        \/ TaskSteps(p)
        \/ AwardValidate(p)
        \/ AwardFind(p)
        \/ AwardSave(p)
        \/ AwardCreate(p)

SpecTasks == InitTasks /\ [][NextTasks]_vars

\* concurrent task requests are explored with a store that never throws
InitTasksConc ==
    /\ InitAccounts({{"u1"}})
    /\ \E active, review \in BOOLEAN, reward \in Rewards :
          tasks = [t \in TaskIds |->
                      [exists |-> TRUE, isActive |-> active,
                       requiresVerification |-> review,
                       pointsReward |-> reward]]
    /\ faults = NoFaults(0)

\* the requests of the registered account and the reviews of its submission
TaskCallsConc(p) ==
    \/ \E t \in TaskIds, link \in {l \in Links : ValidUrl(l)} :
          CallSubmit(p, "u1", t, link)
    \/ \E t \in TaskIds : CallComplete(p, "u1", t)
    \/ \E t \in TaskIds : CallApprove(p, "u1", t)
    \/ \E t \in TaskIds : BeginCall(p, "reject", "u1", t, NoId)

\* task requests made concurrently
NextTasksConc ==
    \E p \in Procs :
        \/ TaskCallsConc(p)
        \/ TaskSteps(p)
        \/ AwardValidate(p)
        \/ AwardFind(p)
        \/ AwardSave(p)
        \/ AwardCreate(p)

SpecTasksConc == InitTasksConc /\ [][NextTasksConc]_vars

----------------------------------------------------------------------------
(* Referral tracker: routes/referrals.ts, POST /check-referral-completion *)

\* the account whose renopaysTag is `tag` (NoId when there is none)
UserWithTag(tag) ==
    IF \E u \in UserIds : users[u].exists /\ users[u].renopaysTag = tag
    THEN CHOOSE u \in UserIds : users[u].exists /\ users[u].renopaysTag = tag
    ELSE NoId

AllComplete_withoutTag(user) ==
    user.emailVerified /\ user.telegramVerified /\ user.telegramFollowed

\* `user.emailVerified && user.telegramVerified && user.telegramFollowed
\*  && !!user.renopaysTag`
AllComplete(user) ==
    /\ user.emailVerified
    /\ user.telegramVerified
    /\ user.telegramFollowed
    /\ user.renopaysTag # NoId

ShouldAward_always(allComplete, referral) == allComplete

ShouldAward_firstTransitionOnly(allComplete, referral) ==
    allComplete /\ ~referral.allVerificationsComplete /\ ~referral.pointsAwarded

\* `if (allComplete && !referral.pointsAwarded)`, on the document as loaded
ShouldAward(allComplete, referral) == allComplete /\ ~referral.pointsAwarded

BothSucceeded_either(referrerResult, referredResult) ==
    referrerResult \/ referredResult

\* `if (referrerPointsResult.success && referredPointsResult.success)`
BothSucceeded(referrerResult, referredResult) ==
    referrerResult /\ referredResult

CallCheck(p, u, cap) ==
    /\ Len(events) + 2 * Cardinality({q \in Procs : calls[q].op # "idle"}) + 2
          <= cap
    /\ BeginCall(p, "check", u, NoId, NoId)

\* `User.findOne({ email: userEmail })`: 404 when null; the early return
\* `{ allComplete: false }` when a verification is missing; no referral to
\* update when the account has no `referredBy`
CheckFindUser(p) ==
    LET c == calls[p]
        user == users[c.uid] IN
    ReadStep(p, "check", "start",
        IF ~user.exists THEN Finish(c, "User not found")
        ELSE IF ~AllComplete(user) THEN Finish(c, "not complete")
        ELSE IF user.referredBy = NoId THEN Finish(c, Ok)
        ELSE [c EXCEPT !.pc = "findReferrer", !.user = user])

\* `User.findOne({ renopaysTag: user.referredBy })`
CheckFindReferrer(p) ==
    LET c == calls[p]
        r == UserWithTag(c.user.referredBy) IN
    ReadStep(p, "check", "findReferrer",
        IF r = NoId THEN Finish(c, Ok)
        ELSE [c EXCEPT !.pc = "findReferral", !.referrer = r,
                       !.rdoc = users[r]])

\* `Referral.findOne({ referrerId, referredEmail })`
CheckFindReferral(p) ==
    LET c == calls[p]
        k == <<c.referrer, c.uid>> IN
    ReadStep(p, "check", "findReferral",
        [c EXCEPT !.pc = IF referrals[k].exists THEN "update" ELSE "create",
                  !.referral = referrals[k]])

\* a write of the Referral document of the handler; it may throw
WriteReferral(p, pc, refused, written, next) ==
    LET c == calls[p]
        k == <<c.referrer, c.uid>> IN
    /\ c.op = "check"
    /\ c.pc = pc
    /\ \E throws \in BOOLEAN :
        /\ throws => CanFault
        /\ faults' = IF throws THEN Faulted("write") ELSE faults
        /\ IF throws \/ refused
           THEN /\ calls' = [calls EXCEPT ![p] = Finish(c, ServerError)]
                /\ UNCHANGED referrals
           ELSE /\ referrals' = [referrals EXCEPT ![k] = written]
                /\ calls' = [calls EXCEPT ![p] = next]
    /\ UNCHANGED <<users, events, tasks, userTasks, last, credits,
                 signals, signups, now>>

\* `Referral.create({ referrerId, referredEmail, referredName })`; the unique
\* index { referrerId, referredEmail } refuses a second document
CheckCreateReferral(p) ==
    LET c == calls[p]
        k == <<c.referrer, c.uid>>
        created == [NoReferral EXCEPT !.exists = TRUE,
                                      !.copies = referrals[k].copies + 1] IN
    WriteReferral(p, "create", DuplicateKey(referrals[k]), created,
        [c EXCEPT !.pc = "update", !.referral = created])

\* `referral.emailVerified = user.emailVerified; ...; await referral.save()`
\* and then `if (allComplete && !referral.pointsAwarded)` the referrer award
CheckUpdateReferral(p) ==
    LET c == calls[p]
        k == <<c.referrer, c.uid>>
        allComplete == AllComplete(c.user)
        written ==
            [referrals[k] EXCEPT
                !.emailVerified = c.user.emailVerified,
                !.telegramVerified = c.user.telegramVerified,
                !.telegramFollowed = c.user.telegramFollowed,
                !.renopaysTagCreated = (c.user.renopaysTag # NoId),
                !.allVerificationsComplete = allComplete,
                !.status = IF allComplete THEN "completed" ELSE "pending",
                !.completedAt = IF allComplete /\ ~c.referral.completedAt
                                THEN TRUE ELSE @] IN
    WriteReferral(p, "update", FALSE, written,
        IF ShouldAward(allComplete, c.referral)
        THEN [c EXCEPT !.pc = "award1", !.awards = 1,
                       !.aw = BeginAward(c.referrer, c.rdoc.gen, ReferrerReward,
                                         "referral_completed", c.uid)]
        ELSE Finish(c, Ok))

\* after `awardPoints(referrer, 150, ...)`: on success
\* `referrer.successfulReferrals = ... + 1; await referrer.save()`; then the
\* award of 100 to the referred account begins
CheckAfterReferrerAward(p) ==
    LET c == calls[p]
        next == [c EXCEPT !.pc = "award2", !.first = c.aw.success,
                          !.awards = 2,
                          !.aw = BeginAward(c.uid, c.user.gen, ReferredReward,
                                            "referral_bonus", c.uid)] IN
    /\ c.op = "check"
    /\ c.pc = "award1"
    /\ c.aw.pc = "ret"
    /\ IF ~c.aw.success
       THEN /\ calls' = [calls EXCEPT ![p] = next]
            /\ UNCHANGED <<users, faults>>
       ELSE \E throws \in BOOLEAN :
            /\ throws => CanFault
            /\ faults' = IF throws THEN Faulted("write") ELSE faults
            /\ IF throws \/ ~UserById(c.referrer, c.rdoc.gen)
               THEN /\ calls' = [calls EXCEPT ![p] =
                                    Finish([c EXCEPT !.first = TRUE], ServerError)]
                    /\ UNCHANGED users
               ELSE /\ users' = [users EXCEPT ![c.referrer].successfulReferrals =
                                    c.rdoc.successfulReferrals + 1]
                    /\ calls' = [calls EXCEPT ![p] = next]
    /\ UNCHANGED <<events, tasks, userTasks, referrals, last, credits,
                 signals, signups, now>>

\* after `awardPoints(user, 100, ...)`: `if (both succeeded)
\* { referral.pointsAwarded = true; await referral.save() }`
CheckAfterReferredAward(p) ==
    LET c == calls[p]
        k == <<c.referrer, c.uid>>
        d == [c EXCEPT !.second = c.aw.success] IN
    /\ c.op = "check"
    /\ c.pc = "award2"
    /\ c.aw.pc = "ret"
    /\ IF ~BothSucceeded(c.first, c.aw.success)
       THEN /\ calls' = [calls EXCEPT ![p] = Finish(d, Ok)]
            /\ UNCHANGED <<referrals, faults>>
       ELSE \E throws \in BOOLEAN :
            /\ throws => CanFault
            /\ faults' = IF throws THEN Faulted("write") ELSE faults
            /\ IF throws
               THEN /\ calls' = [calls EXCEPT ![p] = Finish(d, ServerError)]
                    /\ UNCHANGED referrals
               ELSE /\ referrals' = [referrals EXCEPT ![k].pointsAwarded = TRUE]
                    /\ calls' = [calls EXCEPT ![p] =
                                    Finish([d EXCEPT !.awarded = TRUE], Ok)]
    /\ UNCHANGED <<users, events, tasks, userTasks, last, credits,
                 signals, signups, now>>

\* u1 has created its tag; u2 and u3 signed up with u1's referral code (or
\* with none); u2 has passed any of its four verifications, u3 all of them.  The bonus awards of those
\* verifications are not part of this specification: balances start at 0, the
\* state those handlers leave when their award fails (tasks.ts:993, 1066).
InitReferralStore ==
    /\ \E email, telegram, followed, tag, referred \in BOOLEAN :
          users = [u \in UserIds |->
              IF u = "u1"
              THEN [NewUser EXCEPT !.exists = TRUE, !.renopaysTag = TagOf("u1")]
              ELSE IF u = "u2"
              THEN [NewUser EXCEPT !.exists = TRUE,
                        !.emailVerified = email,
                        !.telegramVerified = telegram,
                        !.telegramFollowed = followed,
                        !.renopaysTag = IF tag THEN TagOf(u) ELSE NoId,
                        !.referredBy = TagOf("u1")]
              ELSE [NewUser EXCEPT !.exists = TRUE,
                        !.emailVerified = TRUE,
                        !.telegramVerified = TRUE,
                        !.telegramFollowed = TRUE,
                        !.renopaysTag = TagOf(u),
                        !.referredBy = IF referred THEN TagOf("u1") ELSE NoId]]
    /\ events = <<>>
    /\ credits = <<>>
    /\ userTasks = [k \in UserIds \X TaskIds |-> NoUserTask]
    /\ referrals = [k \in UserIds \X UserIds |-> NoReferral]
    /\ calls = [p \in Procs |-> IdleCall]
    /\ last = NoResponse
    /\ signals = <<>>
    /\ signups = <<>>
    /\ now = HourTicks + 1
    /\ tasks = [t \in TaskIds |-> NoTask]

InitReferral == InitReferralStore /\ faults = NoFaults(MaxFaults)

\* concurrent checks are explored with a store that never throws
InitReferralConc == InitReferralStore /\ faults = NoFaults(0)

CheckSteps(p) ==
    \/ CheckFindUser(p)
    \/ CheckFindReferrer(p)
    \/ CheckFindReferral(p)
    \/ CheckCreateReferral(p)
    \/ CheckUpdateReferral(p)
    \/ CheckAfterReferrerAward(p)
    \/ CheckAfterReferredAward(p)
    \/ AwardValidate(p)
    \/ AwardFind(p)
    \/ AwardSave(p)
    \/ AwardCreate(p)
    \/ Respond(p)

\* completion checks made one after the other
NextReferral ==
    \E p \in SeqProcs :
        \/ \E u \in UserIds : CallCheck(p, u, MaxReferralEvents)
        \/ CheckSteps(p)

SpecReferral == InitReferral /\ [][NextReferral]_vars

\* completion checks made concurrently
NextReferralConc ==
    \E p \in Procs :
        \/ \E u \in UserIds : CallCheck(p, u, MaxReferralEvents)
        \/ CheckSteps(p)

SpecReferralConc == InitReferralConc /\ [][NextReferralConc]_vars

\* room for the awards of every check that can fail and of the one that succeeds
LiveEvents == 2 * MaxFaults + 2

NextReferralLive ==
    \/ \E p \in SeqProcs : CallCheck(p, "u2", LiveEvents)
    \/ \E p \in SeqProcs : CheckSteps(p)

\* every handler runs to its response (each await resolves or throws), the
\* referred account u2 keeps asking for its completion check, and the store
\* throws at most `faults.budget` times
SpecReferralLive ==
    /\ InitReferral
    /\ [][NextReferralLive]_vars
    /\ WF_vars(\E p \in SeqProcs : CheckSteps(p))
    /\ SF_vars(\E p \in SeqProcs : CallCheck(p, "u2", LiveEvents))

----------------------------------------------------------------------------
(* Bot scorer: middleware/botPrevention.ts checkBotActivity, the middleware
   in front of the signup handler *)

\* `if (ipSignups >= 3)`
IpThreshold == 3

\* `suspiciousScore: 100` of the signal an IP block persists
BlockedScore == 100

\* `userAgent.length < 10`
MinAgentLength == 10

\* `suspiciousScore += 20`
ShortAgentPenalty == 20

\* `if (suspiciousScore >= 50)`
PersistScore == 50

\* BotDetectionSchema: `suspiciousScore: { min: 0, max: 100 }`
MaxScore == 100

TooManyFromEmail == "Too many signups from this email. Please try again later."
TooManyFromIP == "Too many signups from this IP. Please try again later."
SecurityBlock == "Access denied due to suspicious activity"

\* the addresses requests come from
Ips == {"ip1", "ip2"}

\* user-agent headers: absent (`req.get('user-agent') || ''`), 9 and 10
\* characters long
UserAgents == {"", "curl/8.40", "curl/8.4.0"}

\* generateFingerprint: sha256 of `${ip}-${userAgent}-${acceptLanguage}-
\* ${acceptEncoding}`, a value that differs when its inputs differ; the two
\* accept headers are the same in every request of the model
Fingerprint(ip, ua) == <<ip, ua, "", "">>

\* `OnboardingEvent.countDocuments({ eventType: 'onboarding_started',
\*  'eventData.signup_ip': ip, createdAt: { $gte: oneHourAgo } })`
IpSignups(log, ip, t) ==
    Cardinality({i \in 1..Len(log) : log[i].ip = ip /\ log[i].at >= t - HourTicks})

Matches_emailOnly(signal, email, ip, fingerprint) == signal.email = email

\* `$or: [{ email }, { ipAddress: ip }, { fingerprint }]`
Matches(signal, email, ip, fingerprint) ==
    \/ signal.email = email
    \/ signal.ipAddress = ip
    \/ signal.fingerprint = fingerprint

Matching(store, email, ip, fingerprint) ==
    {i \in 1..Len(store) : Matches(store[i], email, ip, fingerprint)}

NoSignal ==
    [found |-> FALSE, email |-> NoId, ipAddress |-> NoId,
     fingerprint |-> <<>>, suspiciousScore |-> 0, blocked |-> FALSE]

MostRecent_oldest(store, email, ip, fingerprint) ==
    LET found == Matching(store, email, ip, fingerprint) IN
    IF found = {} THEN NoSignal
    ELSE store[CHOOSE i \in found : \A j \in found : j >= i]

\* `BotDetection.findOne({ $or: ... }).sort({ createdAt: -1 })`
MostRecent(store, email, ip, fingerprint) ==
    LET found == Matching(store, email, ip, fingerprint) IN
    IF found = {} THEN NoSignal
    ELSE store[CHOOSE i \in found : \A j \in found : j <= i]

Score_heavyPenalty(seed, ua) ==
    IF ua = "" \/ Len(ua) < MinAgentLength THEN seed + PersistScore ELSE seed

\* `let suspiciousScore = botCheck?.suspiciousScore || 0`;
\* `if (!userAgent || userAgent.length < 10) suspiciousScore += 20`
Score(seed, ua) ==
    IF ua = "" \/ Len(ua) < MinAgentLength THEN seed + ShortAgentPenalty
    ELSE seed

NewSignal(c, score, blocked) ==
    [found |-> TRUE, email |-> c.uid, ipAddress |-> c.ip,
     fingerprint |-> Fingerprint(c.ip, c.ua), suspiciousScore |-> score,
     blocked |-> blocked]

\* a read made by the middleware: when it throws, the catch block of the
\* middleware calls next() and the signup handler runs
BotRead(p, pc, next) ==
    LET c == calls[p] IN
    /\ c.op = "signup"
    /\ c.pc = pc
    /\ \E throws \in BOOLEAN :
        /\ throws => CanFault
        /\ faults' = IF throws THEN Faulted("read") ELSE faults
        /\ calls' = [calls EXCEPT ![p] =
                        IF throws THEN [c EXCEPT !.pc = "start"] ELSE next]
    /\ UNCHANGED <<users, events, tasks, userTasks, referrals, last, credits,
                 signals, signups, now>>

\* step 1: an account with this email created within the last hour
BotFindRecent(p) ==
    LET c == calls[p] IN
    BotRead(p, "bot",
        IF users[c.uid].exists /\ users[c.uid].createdAt >= now - HourTicks
        THEN Finish([c EXCEPT !.at = now], TooManyFromEmail)
        ELSE [c EXCEPT !.pc = "botCount", !.at = now])

\* step 2: the signup events of this ip within the last hour
BotCountIp(p) ==
    LET c == calls[p]
        count == IpSignups(signups, c.ip, c.at) IN
    BotRead(p, "botCount",
        [c EXCEPT !.count = count,
                  !.pc = IF count >= IpThreshold THEN "botBlock"
                        ELSE "botFind"])

\* a BotDetection.create of the middleware: a create that throws (the store,
\* or the validators of the schema) ends in the catch block as well
BotCreate(p, pc, signal, next) ==
    LET c == calls[p] IN
    /\ c.op = "signup"
    /\ c.pc = pc
    /\ \E throws \in BOOLEAN :
        /\ throws => CanFault
        /\ faults' = IF throws THEN Faulted("write") ELSE faults
        /\ IF throws \/ signal.suspiciousScore < 0
                    \/ signal.suspiciousScore > MaxScore
           THEN /\ calls' = [calls EXCEPT ![p] = [c EXCEPT !.pc = "start"]]
                /\ UNCHANGED signals
           ELSE /\ signals' = Append(signals, signal)
                /\ calls' = [calls EXCEPT ![p] = next]
    /\ UNCHANGED <<users, events, tasks, userTasks, referrals, last, credits,
                 signups, now>>

\* `BotDetection.create({ ..., suspiciousScore: 100, blocked: true })`, 429
BotCreateBlocked(p) ==
    LET c == calls[p] IN
    BotCreate(p, "botBlock", NewSignal(c, BlockedScore, TRUE),
              Finish(c, TooManyFromIP))

\* steps 3 and 4: the most recent matching signal; 403 when it is blocked,
\* else the score of the request
BotFindSignal(p) ==
    LET c == calls[p]
        botCheck == MostRecent(signals, c.uid, c.ip, Fingerprint(c.ip, c.ua))
        score == Score(botCheck.suspiciousScore, c.ua) IN
    BotRead(p, "botFind",
        IF botCheck.found /\ botCheck.blocked THEN Finish(c, SecurityBlock)
        ELSE [c EXCEPT !.score = score,
                       !.pc = IF score >= PersistScore THEN "botSignal"
                              ELSE "start"])

\* `BotDetection.create({ ..., suspiciousScore, blocked: false })`, next()
BotCreateSignal(p) ==
    LET c == calls[p] IN
    BotCreate(p, "botSignal", NewSignal(c, c.score, FALSE),
              [c EXCEPT !.pc = "start"])

----------------------------------------------------------------------------
(* Signup with a referral code: routes/onboarding.ts, POST /; and the
   administrator's DELETE /users/:userId *)

\* referral codes a signup may carry (none, u1's tag, a tag nobody has)
ReferralCodes == {NoId, "tag1", "tag9"}

\* `router.post('/', strictRateLimiter, honeypotField, checkBotActivity,
\*  ...)`: the request reaches the bot scorer first
CallSignup(p, u, code, ip, ua) ==
    /\ users[u].gen < MaxSignups
    /\ BeginRequest(p, "signup", "bot", u, NoId, code, ip, ua)

\* `User.findOne({ email })`: 400 when the email is registered
SignupFindExisting(p) ==
    LET c == calls[p] IN
    ReadStep(p, "signup", "start",
        IF users[c.uid].exists THEN Finish(c, "Email already registered")
        ELSE [c EXCEPT !.pc = IF c.arg # NoId THEN "findCode" ELSE "save"])

\* `if (referralCode) referrer = await User.findOne({ renopaysTag: code })`;
\* `referredBy = referrer.renopaysTag` when there is one
SignupFindCode(p) ==
    LET c == calls[p]
        r == UserWithTag(c.arg) IN
    ReadStep(p, "signup", "findCode",
        [c EXCEPT !.pc = "save",
                  !.user.referredBy =
                      IF r = NoId THEN NoId ELSE users[r].renopaysTag])

\* `new User({ ..., referredBy }); await user.save()`; the unique index on
\* email refuses a second account
SignupSaveUser(p) ==
    LET c == calls[p]
        created == [NewUser EXCEPT !.exists = TRUE,
                                   !.gen = users[c.uid].gen + 1,
                                   !.referredBy = c.user.referredBy,
                                   !.createdAt = now] IN
    /\ c.op = "signup"
    /\ c.pc = "save"
    /\ \E throws \in BOOLEAN :
        /\ throws => CanFault
        /\ faults' = IF throws THEN Faulted("write") ELSE faults
        /\ IF throws \/ DuplicateKey(users[c.uid])
           THEN /\ calls' = [calls EXCEPT ![p] = Finish(c, ServerError)]
                /\ UNCHANGED users
           ELSE /\ users' = [users EXCEPT ![c.uid] = created]
                /\ calls' = [calls EXCEPT ![p] =
                                [c EXCEPT !.pc = "event", !.user = created]]
    /\ UNCHANGED <<events, tasks, userTasks, referrals, last, credits,
                 signals, signups, now>>

\* `OnboardingEvent.create({ eventType: 'onboarding_started',
\*  eventData: { ..., signup_ip, fingerprint } })` (not a points
\* transaction), then `if (referredBy)` the referral record
SignupLogEvent(p) ==
    LET c == calls[p] IN
    /\ c.op = "signup"
    /\ c.pc = "event"
    /\ \E throws \in BOOLEAN :
        /\ throws => CanFault
        /\ faults' = IF throws THEN Faulted("write") ELSE faults
        /\ signups' = IF throws THEN signups
                      ELSE Append(signups, [ip |-> c.ip, at |-> now])
        /\ calls' = [calls EXCEPT ![p] =
              IF throws THEN Finish(c, ServerError)
              ELSE IF c.user.referredBy = NoId THEN Finish(c, Ok)
              ELSE [c EXCEPT !.pc = "findReferrer"]]
    /\ UNCHANGED <<users, events, tasks, userTasks, referrals, last, credits,
                 signals, now>>

\* `const referrer = await User.findOne({ renopaysTag: referredBy })`
SignupFindReferrer(p) ==
    LET c == calls[p]
        r == UserWithTag(c.user.referredBy) IN
    ReadStep(p, "signup", "findReferrer",
        IF r = NoId THEN Finish(c, Ok)
        ELSE [c EXCEPT !.pc = "upsert", !.referrer = r])

Upserted_replaced(stored) ==
    [NoReferral EXCEPT !.exists = TRUE,
                       !.copies = IF stored.exists THEN stored.copies ELSE 1]

\* the document an upsert leaves: the stored one with `status: 'pending'`
\* set (mongoose sends the update as $set), or a new one with the defaults
Upserted(stored) ==
    IF stored.exists
    THEN [stored EXCEPT !.status = "pending"]
    ELSE [NoReferral EXCEPT !.exists = TRUE, !.copies = stored.copies + 1]

\* `Referral.findOneAndUpdate({ referrerId, referredEmail },
\*  { referrerId, referredEmail, referredName, status: 'pending' },
\*  { upsert: true })`: one atomic store operation
SignupUpsertReferral(p) ==
    LET c == calls[p]
        k == <<c.referrer, c.uid>> IN
    /\ c.op = "signup"
    /\ c.pc = "upsert"
    /\ \E throws \in BOOLEAN :
        /\ throws => CanFault
        /\ faults' = IF throws THEN Faulted("write") ELSE faults
        /\ IF throws
           THEN /\ calls' = [calls EXCEPT ![p] = Finish(c, ServerError)]
                /\ UNCHANGED referrals
           ELSE /\ referrals' = [referrals EXCEPT ![k] = Upserted(referrals[k])]
                /\ calls' = [calls EXCEPT ![p] = Finish(c, Ok)]
    /\ UNCHANGED <<users, events, tasks, userTasks, last, credits,
                 signals, signups, now>>

\* `User.findByIdAndDelete(userId)`: the account document only
DeleteUser(p, u) ==
    /\ calls[p].op = "idle"
    /\ users[u].exists
    /\ users' = [users EXCEPT ![u] = [NewUser EXCEPT !.gen = users[u].gen]]
    /\ last' = NoResponse
    /\ UNCHANGED <<events, tasks, userTasks, referrals, calls, faults, credits,
                 signals, signups, now>>

\* the steps of a signup that no signal and no run of signups from its
\* address stops (without the two creates of the middleware)
SignupSteps(p) ==
    \/ BotFindRecent(p)
    \/ BotCountIp(p)
    \/ BotFindSignal(p)
    \/ SignupFindExisting(p)
    \/ SignupFindCode(p)
    \/ SignupSaveUser(p)
    \/ SignupLogEvent(p)
    \/ SignupFindReferrer(p)
    \/ SignupUpsertReferral(p)

\* u1 has its tag, u2 is a plain account that works on the task, u3 signed
\* up with u1's code and has passed its verifications; u3's is the email
\* that is deleted and signed up again
InitRecordsStore ==
    /\ users = [u \in UserIds |->
          IF u = "u1"
          THEN [NewUser EXCEPT !.exists = TRUE, !.renopaysTag = TagOf("u1")]
          ELSE IF u = "u2"
          THEN [NewUser EXCEPT !.exists = TRUE]
          ELSE [NewUser EXCEPT !.exists = TRUE,
                    !.emailVerified = TRUE, !.telegramVerified = TRUE,
                    !.telegramFollowed = TRUE, !.renopaysTag = TagOf(u),
                    !.referredBy = TagOf("u1")]]
    /\ events = <<>>
    /\ credits = <<>>
    /\ userTasks = [k \in UserIds \X TaskIds |-> NoUserTask]
    /\ referrals = [k \in UserIds \X UserIds |-> NoReferral]
    /\ calls = [p \in Procs |-> IdleCall]
    /\ last = NoResponse
    /\ signals = <<>>
    /\ signups = <<>>
    /\ now = HourTicks + 1
    /\ \E review \in BOOLEAN, reward \in Rewards :
          tasks = [t \in TaskIds |->
                      [exists |-> TRUE, isActive |-> TRUE,
                       requiresVerification |-> review,
                       pointsReward |-> reward]]

\* one store operation fewer may throw than in the runs of one subsystem
InitRecords == InitRecordsStore /\ faults = NoFaults(MaxFaults - 1)

\* every operation that writes a UserTask or a Referral document
RecordSteps(p) ==
    \/ TaskSteps(p)
    \/ CheckFindUser(p)
    \/ CheckFindReferrer(p)
    \/ CheckFindReferral(p)
    \/ CheckCreateReferral(p)
    \/ CheckUpdateReferral(p)
    \/ CheckAfterReferrerAward(p)
    \/ CheckAfterReferredAward(p)
    \/ SignupSteps(p)
    \/ AwardValidate(p)
    \/ AwardFind(p)
    \/ AwardSave(p)
    \/ AwardCreate(p)

RecordCalls(p) ==
    \/ \E t \in TaskIds, link \in {l \in Links : ValidUrl(l)} :
          CallSubmit(p, "u2", t, link)
    \/ \E t \in TaskIds : CallComplete(p, "u2", t)
    \/ \E t \in TaskIds : CallApprove(p, "u2", t)
    \/ \E t \in TaskIds : BeginCall(p, "reject", "u2", t, NoId)
    \/ CallCheck(p, "u3", MaxReferralEvents)
    \/ \E code \in ReferralCodes :
          CallSignup(p, "u3", code, "ip1", "curl/8.4.0")
    \/ DeleteUser(p, "u3")

\* requests made one after the other
NextRecords == \E p \in SeqProcs : RecordCalls(p) \/ RecordSteps(p)

SpecRecords == InitRecords /\ [][NextRecords]_vars

\* concurrent requests are explored with a store that never throws
InitRecordsConc == InitRecordsStore /\ faults = NoFaults(0)

\* the slots that carry submissions, signups and removals of accounts
Submitters == {p \in Procs : p % 2 = 1}

\* the requests that create a UserTask or a Referral document, the removal
\* of an account, and their steps, made concurrently
NextRecordsConc ==
    \E p \in Procs :
        \/ \E t \in TaskIds, link \in {l \in Links : ValidUrl(l)} :
              p \in Submitters /\ CallSubmit(p, "u2", t, link)
        \/ \E t \in TaskIds : p \notin Submitters /\ CallComplete(p, "u2", t)
        \/ p \notin Submitters /\ CallCheck(p, "u3", MaxReferralEvents)
        \/ p \in Submitters
              /\ CallSignup(p, "u3", "tag1", "ip1", "curl/8.4.0")
        \/ p \in Submitters /\ DeleteUser(p, "u3")
        \/ SubmitValidate(p)
        \/ LoadUser(p, "submit")
        \/ SubmitFindTask(p)
        \/ SubmitFindUserTask(p)
        \/ SubmitWrite(p)
        \/ CompleteStart(p)
        \/ LoadUser(p, "complete")
        \/ CompleteFindTask(p)
        \/ CompleteFindUserTask(p)
        \/ CompleteWrite(p)
        \/ MarkAwarded(p, "complete")
        \/ CheckFindUser(p)
        \/ CheckFindReferrer(p)
        \/ CheckFindReferral(p)
        \/ CheckCreateReferral(p)
        \/ CheckUpdateReferral(p)
        \/ CheckAfterReferrerAward(p)
        \/ CheckAfterReferredAward(p)
        \/ SignupSteps(p)
        \/ AwardValidate(p)
        \/ AwardFind(p)
        \/ AwardSave(p)
        \/ AwardCreate(p)
        \/ Respond(p)

SpecRecordsConc == InitRecordsConc /\ [][NextRecordsConc]_vars

----------------------------------------------------------------------------
(* Ban gate: middleware/banCheck.ts checkBanStatus, the administrator's
   POST /users/:userId/ban and /unban, and the routes behind the gate *)

\* the message of the 403 the gate answers
Banned == "Your account has been banned"

ReportedReason(reason) == IF reason = NoId THEN "Violation of terms of service" ELSE reason

BanExpired_orNow(until, t) == until # NoTime /\ until <= t

\* `user.bannedUntil && new Date(user.bannedUntil) < now`
BanExpired(until, t) == until # NoTime /\ until < t

Unbanned_flagOnly(user) == [user EXCEPT !.banned = FALSE]

\* `user.banned = false; user.banReason = undefined;
\*  user.bannedUntil = undefined`
Unbanned(user) ==
    [user EXCEPT !.banned = FALSE, !.banReason = NoId, !.bannedUntil = NoTime]

\* the routes whose middleware chain holds checkBanStatus:
\* /check-referral-completion, /mark-telegram-followed, /verify-telegram,
\* /renopays-tag;
\* POST /:taskId/submit and /:taskId/complete have `authenticate` only
GatedRoutes == {"check", "followed", "telegram", "tag"}


\* `User.findOne({ email }).select('banned banReason bannedUntil')` and the
\* decision on the document; the catch block of the gate lets the request
\* through when the read throws
GateFind(p) ==
    LET c == calls[p]
        user == users[c.uid]
        seen == [c EXCEPT !.at = now, !.user = user] IN
    /\ c.pc = "gate"
    /\ \E throws \in BOOLEAN :
        /\ throws => CanFault
        /\ faults' = IF throws THEN Faulted("read") ELSE faults
        /\ calls' = [calls EXCEPT ![p] =
              IF throws THEN [c EXCEPT !.pc = "start"]
              ELSE IF ~(user.exists /\ user.banned)
              THEN [c EXCEPT !.pc = "start"]
              ELSE IF BanExpired(user.bannedUntil, now)
              THEN [seen EXCEPT !.pc = "gateSave"]
              ELSE Finish([seen EXCEPT
                              !.banReason = ReportedReason(user.banReason),
                              !.bannedUntil = user.bannedUntil], Banned)]
    /\ UNCHANGED <<users, events, tasks, userTasks, referrals, last, credits,
                 signals, signups, now>>

\* `await user.save()` of the unbanned document (the paths the middleware
\* changed on the copy it loaded), then `next()`; a save that throws (also:
\* the document is gone) lets the request through as well
GateSave(p) ==
    LET c == calls[p] IN
    /\ c.pc = "gateSave"
    /\ \E throws \in BOOLEAN :
        /\ throws => CanFault
        /\ faults' = IF throws THEN Faulted("write") ELSE faults
        /\ users' = IF throws \/ ~UserById(c.uid, c.user.gen) THEN users
                    ELSE [users EXCEPT ![c.uid] =
                             SavedDoc(@, c.user, Unbanned(c.user))]
        /\ calls' = [calls EXCEPT ![p] = [c EXCEPT !.pc = "start"]]
    /\ UNCHANGED <<events, tasks, userTasks, referrals, last, credits,
                 signals, signups, now>>

(* POST /mark-telegram-followed *)

FollowedFindUser(p) ==
    LET c == calls[p] IN
    ReadStep(p, "followed", "start",
        IF ~users[c.uid].exists THEN Finish(c, "User not found")
        ELSE [c EXCEPT !.pc = "save", !.user = users[c.uid]])

\* `user.save()` of the User document the handler has loaded, as
\* `assigned`: the paths the handler changed on its copy are written
SaveUser(p, op, assigned, next) ==
    LET c == calls[p] IN
    /\ c.op = op
    /\ c.pc = "save"
    /\ \E throws \in BOOLEAN :
        /\ throws => CanFault
        /\ faults' = IF throws THEN Faulted("write") ELSE faults
        /\ IF throws \/ ~UserById(c.uid, c.user.gen)
           THEN /\ calls' = [calls EXCEPT ![p] = Finish(c, ServerError)]
                /\ UNCHANGED users
           ELSE /\ users' = [users EXCEPT ![c.uid] =
                                SavedDoc(@, c.user, assigned)]
                /\ calls' = [calls EXCEPT ![p] = next]
    /\ UNCHANGED <<events, tasks, userTasks, referrals, last, credits,
                 signals, signups, now>>

\* `user.telegramFollowed = true; await user.save()`
FollowedSave(p) ==
    SaveUser(p, "followed", [calls[p].user EXCEPT !.telegramFollowed = TRUE],
             Finish(calls[p], Ok))

(* POST /verify-telegram *)

\* `awardPoints(userId, 200, 'Telegram verified', ...)`
TelegramReward == 200

TelegramFindUser(p) ==
    LET c == calls[p] IN
    ReadStep(p, "telegram", "start",
        IF ~users[c.uid].exists THEN Finish(c, "User not found")
        ELSE [c EXCEPT !.pc = "save", !.user = users[c.uid]])

\* `user.telegramVerified = true; await user.save()`, then the award
TelegramSave(p) ==
    LET c == calls[p] IN
    SaveUser(p, "telegram", [c.user EXCEPT !.telegramVerified = TRUE],
             [c EXCEPT !.pc = "award",
                       !.aw = BeginAward(c.uid, c.user.gen, TelegramReward,
                                         "telegram_verified", NoId)])

\* a failed award is only logged; then
\* `OnboardingEvent.create({ eventType: 'telegram_verified' })`
\* ('renopays_tag_created' in POST /renopays-tag) and the response
TelegramLog(p) ==
    LET c == calls[p] IN
    /\ c.op \in {"telegram", "tag"}
    /\ c.pc = "award"
    /\ c.aw.pc = "ret"
    /\ \E throws \in BOOLEAN :
        /\ throws => CanFault
        /\ faults' = IF throws THEN Faulted("write") ELSE faults
        /\ calls' = [calls EXCEPT ![p] =
              IF throws THEN Finish(c, ServerError)
              ELSE Finish([c EXCEPT !.awarded = c.aw.success], Ok)]
    /\ UNCHANGED <<users, events, tasks, userTasks, referrals, last, credits,
                 signals, signups, now>>

(* POST /renopays-tag *)

\* `awardPoints(userId, 100, 'Renopays tag created', ...)`
TagReward == 100

TagFindUser(p) ==
    LET c == calls[p] IN
    ReadStep(p, "tag", "start",
        IF ~users[c.uid].exists THEN Finish(c, "User not found")
        ELSE [c EXCEPT !.pc = "findTag", !.user = users[c.uid]])

\* `User.findOne({ renopaysTag: tag, _id: { $ne: user._id } })`: 400 when
\* another account holds the tag; 400 when the account has a different tag;
\* a request that names the tag the account already has goes on
TagFindHolder(p) ==
    LET c == calls[p] IN
    ReadStep(p, "tag", "findTag",
        IF \E u \in UserIds \ {c.uid} :
              users[u].exists /\ users[u].renopaysTag = c.arg
        THEN Finish(c, "This tag is already taken by another user")
        ELSE IF c.user.renopaysTag # NoId /\ c.user.renopaysTag # c.arg
        THEN Finish(c, "You cannot change your renopays tag once it is set")
        ELSE [c EXCEPT !.pc = "save"])

\* `user.renopaysTag = tag; user.referralCode = tag; await user.save()`,
\* then the award
TagSave(p) ==
    LET c == calls[p] IN
    SaveUser(p, "tag", [c.user EXCEPT !.renopaysTag = c.arg],
             [c EXCEPT !.pc = "award",
                       !.aw = BeginAward(c.uid, c.user.gen, TagReward,
                                         "tag_created", NoId)])

(* POST /users/:userId/ban and /users/:userId/unban (administrator) *)

CallBan(p, u, reason, until) ==
    /\ calls[p].op = "idle"
    /\ calls' = [calls EXCEPT ![p] =
                    [IdleCall EXCEPT !.op = "ban", !.pc = "start", !.uid = u,
                                     !.arg = reason, !.bannedUntil = until,
                                     !.pre = Snapshot]]
    /\ last' = NoResponse
    /\ UNCHANGED <<users, events, tasks, userTasks, referrals, faults, credits,
                 signals, signups, now>>

\* `const user = await User.findById(userId)`, 404 when null
AdminFindUser(p, op) ==
    LET c == calls[p] IN
    ReadStep(p, op, "start",
        IF ~users[c.uid].exists THEN Finish(c, "User not found")
        ELSE [c EXCEPT !.pc = "save", !.user = users[c.uid]])

\* `user.banned = true; user.banReason = banReason;
\*  user.bannedUntil = bannedUntil ? new Date(bannedUntil) : undefined;
\*  await user.save()`
BanSave(p) ==
    LET c == calls[p] IN
    SaveUser(p, "ban",
             [c.user EXCEPT !.banned = TRUE, !.banReason = c.arg,
                            !.bannedUntil = c.bannedUntil],
             [c EXCEPT !.pc = "log"])

\* `user.banned = false; ...; await user.save()`
UnbanSave(p) ==
    SaveUser(p, "unban", Unbanned(calls[p].user),
             [calls[p] EXCEPT !.pc = "log"])

\* `OnboardingEvent.create({ eventType: 'user_banned' | 'user_unbanned' })`
AdminLog(p) ==
    LET c == calls[p] IN
    /\ c.op \in {"ban", "unban"}
    /\ c.pc = "log"
    /\ \E throws \in BOOLEAN :
        /\ throws => CanFault
        /\ faults' = IF throws THEN Faulted("write") ELSE faults
        /\ calls' = [calls EXCEPT ![p] =
              Finish(c, IF throws THEN ServerError ELSE Ok)]
    /\ UNCHANGED <<users, events, tasks, userTasks, referrals, last, credits,
                 signals, signups, now>>

\* time passes
Tick ==
    /\ now < MaxTime
    /\ now' = now + 1
    /\ UNCHANGED <<users, events, tasks, userTasks, referrals, calls, last,
                   faults, credits, signals, signups>>

\* a request to a route of the application by account u; it starts in the
\* gate on the routes that carry it and in the handler on the others (the
\* specifications in which no account is ever banned start every handler
\* directly: the gate lets each of their requests through)
Request(p, op, u, t, arg) ==
    BeginRequest(p, op, IF op \in GatedRoutes THEN "gate" ELSE "start",
                 u, t, arg, NoId, NoId)

\* u1 has its tag; u2 is a plain account and u3 an account referred by u1
\* that has passed its verifications; the task is active, pays, and is of
\* either path; nobody is banned yet
InitGate ==
    /\ InitRecordsStore
    /\ tasks["k1"].pointsReward > 0
    /\ faults = NoFaults(MaxFaults - 1)

\* the requests of account u3 and the administrator's bans of it
GateCalls(p) ==
    \/ \E t \in TaskIds, link \in {l \in Links : ValidUrl(l)} :
          LogHasRoom(1) /\ Request(p, "submit", "u3", t, link)
    \/ \E t \in TaskIds : LogHasRoom(1) /\ Request(p, "complete", "u3", t, NoId)
    \/ LogHasRoom(2) /\ Request(p, "check", "u3", NoId, NoId)
    \/ Request(p, "followed", "u3", NoId, NoId)
    \/ LogHasRoom(1) /\ Request(p, "telegram", "u3", NoId, NoId)
    \/ \E reason \in {"spam"}, until \in {NoTime} \cup ((HourTicks + 1)..MaxTime) :
          CallBan(p, "u3", reason, until)
    \/ BeginCall(p, "unban", "u3", NoId, NoId)

\* requests made one after the other while time passes
NextGate ==
    \/ Tick
    \/ \E p \in SeqProcs :
          \/ GateCalls(p)
          \/ GateFind(p)
          \/ GateSave(p)
          \/ FollowedFindUser(p)
          \/ FollowedSave(p)
          \/ TelegramFindUser(p)
          \/ TelegramSave(p)
          \/ TelegramLog(p)
          \/ AdminFindUser(p, "ban")
          \/ AdminFindUser(p, "unban")
          \/ BanSave(p)
          \/ UnbanSave(p)
          \/ AdminLog(p)
          \/ SubmitValidate(p)
          \/ LoadUser(p, "submit")
          \/ SubmitFindTask(p)
          \/ SubmitFindUserTask(p)
          \/ SubmitWrite(p)
          \/ CompleteStart(p)
          \/ LoadUser(p, "complete")
          \/ CompleteFindTask(p)
          \/ CompleteFindUserTask(p)
          \/ CompleteWrite(p)
          \/ MarkAwarded(p, "complete")
          \/ CheckFindUser(p)
          \/ CheckFindReferrer(p)
          \/ CheckFindReferral(p)
          \/ CheckCreateReferral(p)
          \/ CheckUpdateReferral(p)
          \/ CheckAfterReferrerAward(p)
          \/ CheckAfterReferredAward(p)
          \/ AwardValidate(p)
          \/ AwardFind(p)
          \/ AwardSave(p)
          \/ AwardCreate(p)
          \/ Respond(p)

SpecGate == InitGate /\ [][NextGate]_vars

\* the bonus requests of an account without a tag (u2) and of one with a
\* tag (u3), made one after the other; nobody is banned
NextBonus ==
    \E p \in SeqProcs :
        \/ \E u \in {"u2", "u3"} :
              LogHasRoom(1) /\ BeginCall(p, "telegram", u, NoId, NoId)
        \/ \E u \in {"u2", "u3"} : \E tag \in {TagOf("u1"), TagOf(u)} :
              LogHasRoom(1) /\ BeginCall(p, "tag", u, NoId, tag)
        \/ TelegramFindUser(p)
        \/ TelegramSave(p)
        \/ TelegramLog(p)
        \/ TagFindUser(p)
        \/ TagFindHolder(p)
        \/ TagSave(p)
        \/ AwardValidate(p)
        \/ AwardFind(p)
        \/ AwardSave(p)
        \/ AwardCreate(p)
        \/ Respond(p)

SpecBonus == InitGate /\ [][NextBonus]_vars

(* POST /login (routes/auth.ts) and GET /me: the handlers that lift an
   expired ban themselves *)

\* `User.findOne({ email })`: no account, 'Invalid credentials' at login and
\* 'User not found' on the profile read; the login of an account whose email
\* is not verified is refused; `if (user.banned)`: an expired ban is lifted
\* (the save follows), another one is answered by login with the 403 and
\* reported by the profile read in its data
AccountRead(p, op) ==
    LET c == calls[p]
        user == users[c.uid]
        seen == [c EXCEPT !.at = now, !.user = user] IN
    ReadStep(p, op, "start",
        IF ~user.exists
        THEN Finish(c, IF op = "login" THEN "Invalid credentials"
                       ELSE "User not found")
        ELSE IF op = "login" /\ ~user.emailVerified
        THEN Finish(c, "Please verify your email before logging in")
        ELSE IF ~user.banned THEN Finish(seen, Ok)
        ELSE IF BanExpired(user.bannedUntil, now)
        THEN [seen EXCEPT !.pc = "save"]
        ELSE Finish([seen EXCEPT
                        !.banReason = ReportedReason(user.banReason),
                        !.bannedUntil = user.bannedUntil],
                    IF op = "login" THEN Banned ELSE Ok))

\* `user.banned = false; user.banReason = undefined;
\*  user.bannedUntil = undefined; await user.save()`, then the response
ExpirySave(p, op) ==
    SaveUser(p, op, Unbanned(calls[p].user), Finish(calls[p], Ok))

\* the administrator's bans of account u3 in one slot; the gate, a route
\* behind it, login, the profile read and the administrator's unbans in the
\* other; the two in flight together while time passes
NextGateConc ==
    \/ Tick
    \/ \E p \in Procs :
          \/ p \notin Submitters /\ Request(p, "followed", "u3", NoId, NoId)
          \/ p \notin Submitters /\ BeginCall(p, "login", "u3", NoId, NoId)
          \/ p \notin Submitters /\ BeginCall(p, "profile", "u3", NoId, NoId)
          \/ \E until \in {NoTime} \cup ((HourTicks + 1)..MaxTime) :
                p \in Submitters /\ CallBan(p, "u3", "spam", until)
          \/ p \notin Submitters /\ BeginCall(p, "unban", "u3", NoId, NoId)
          \/ GateFind(p)
          \/ GateSave(p)
          \/ FollowedFindUser(p)
          \/ FollowedSave(p)
          \/ AccountRead(p, "login")
          \/ AccountRead(p, "profile")
          \/ ExpirySave(p, "login")
          \/ ExpirySave(p, "profile")
          \/ AdminFindUser(p, "ban")
          \/ AdminFindUser(p, "unban")
          \/ BanSave(p)
          \/ UnbanSave(p)
          \/ AdminLog(p)
          \/ Respond(p)

\* the store does not throw in these runs
\* the accounts of the concurrent runs; the task pays a reward and needs no
\* review
InitGateConc ==
    /\ InitRecordsConc
    /\ tasks["k1"].pointsReward > 0
    /\ ~tasks["k1"].requiresVerification

SpecGateConc == InitGateConc /\ [][NextGateConc]_vars

(* Signups in front of the bot scorer *)

\* a signal the store holds when the run starts
Seed(score, blocked) ==
    [found |-> TRUE, email |-> "u2", ipAddress |-> "ip1", fingerprint |-> <<>>,
     suspiciousScore |-> score, blocked |-> blocked]

\* signals of earlier activity of email u2 at address ip1: two that do not
\* block and one that does
SeedSignals == {Seed(40, FALSE), Seed(90, FALSE), Seed(BlockedScore, TRUE)}

\* u2 and u3 have no account yet; the BotDetection collection is empty or
\* holds signals of earlier activity, and up to three signups have come
\* from ip1 within the hour; the store does not throw in these runs (the
\* validators of the schema still refuse a document)
InitBot ==
    /\ users = [u \in UserIds |-> NewUser]
    /\ events = <<>>
    /\ credits = <<>>
    /\ userTasks = [k \in UserIds \X TaskIds |-> NoUserTask]
    /\ referrals = [k \in UserIds \X UserIds |-> NoReferral]
    /\ tasks = [t \in TaskIds |-> NoTask]
    /\ calls = [p \in Procs |-> IdleCall]
    /\ last = NoResponse
    /\ \E n \in 0..MaxSignupEvents :
          signups = [i \in 1..n |-> [ip |-> "ip1", at |-> HourTicks]]
    /\ now = HourTicks + 1
    /\ faults = NoFaults(0)
    /\ \E n \in 0..MaxSeeds : signals \in [1..n -> SeedSignals]

\* a signup request of any email from any address with any user-agent
BotCalls(p) ==
    \E u \in {"u2", "u3"}, ip \in Ips, ua \in UserAgents :
        /\ Len(signals) < MaxSeeds + MaxSignals
        /\ BeginRequest(p, "signup", "bot", u, NoId, NoId, ip, ua)

\* signup requests made one after the other while time passes
NextBot ==
    \/ Tick
    \/ \E p \in SeqProcs :
          \/ BotCalls(p)
          \/ BotCreateBlocked(p)
          \/ BotCreateSignal(p)
          \/ BotFindRecent(p)
          \/ BotCountIp(p)
          \/ BotFindSignal(p)
          \/ SignupFindExisting(p)
          \/ SignupSaveUser(p)
          \/ SignupLogEvent(p)
          \/ Respond(p)

SpecBot == InitBot /\ [][NextBot]_vars

\* signup requests in flight together: each slot carries the requests of
\* one email, from the address of the earlier signups
NextBotConc ==
    \/ Tick
    \/ \E p \in Procs :
          \/ \E ua \in {"", "curl/8.4.0"} :
                /\ Len(signals) < MaxSeeds + MaxSignals
                /\ BeginRequest(p, "signup", "bot",
                                IF p \in Submitters THEN "u2" ELSE "u3",
                                NoId, NoId, "ip1", ua)
          \/ BotCreateBlocked(p)
          \/ BotCreateSignal(p)
          \/ BotFindRecent(p)
          \/ BotCountIp(p)
          \/ BotFindSignal(p)
          \/ SignupFindExisting(p)
          \/ SignupSaveUser(p)
          \/ SignupLogEvent(p)
          \/ Respond(p)

\* the store is empty or holds one signal that does not block
\* the BotDetection collection is empty or holds one signal of earlier
\* activity
InitBotConc ==
    /\ InitBot
    /\ signals \in {<<>>, <<Seed(40, FALSE)>>}

SpecBotConc == InitBotConc /\ [][NextBotConc]_vars

----------------------------------------------------------------------------
(* Claims about the points ledger *)

\* the cached balance of every account equals the sum of its transactions
BalancesMatchLog ==
    \A u \in UserIds :
        users[u].exists => users[u].points = SumAmounts(events, u)

\* the store as the handler that returned last found it
StoreUnchangedByLast ==
    /\ users = last.pre.users
    /\ events = last.pre.events
    /\ userTasks = last.pre.userTasks
    /\ referrals = last.pre.referrals

\* C1: in a sequential run of award calls in which every store write
\* succeeds, after every call each account's balance equals the sum of its
\* points_awarded events, and a call that returned failure (InvalidAmount,
\* AccountNotFound or a failed lookup) changed neither balance nor log.
C1_BalanceEqualsSumOfTransactions ==
    faults.write = 0 =>
        /\ Quiescent => BalancesMatchLog
        /\ (Quiescent /\ last.op = "award" /\ ~last.success)
              => StoreUnchangedByLast

\* C1 witness: two awards have been recorded and the latest call failed
C1_Witness ==
    /\ faults.write = 0
    /\ Quiescent
    /\ Len(events) >= 2
    /\ last.op = "award" /\ ~last.success
    /\ \E u \in UserIds : users[u].points >= 2

\* C2: an award call that reports failure has changed neither the balance
\* nor the transaction log, also when the store fails in the middle of it;
\* a call that reports success has changed both.
C2_AwardNeverPartiallyApplies ==
    (Quiescent /\ last.op = "award") =>
        IF last.success
        THEN users # last.pre.users /\ events # last.pre.events
        ELSE users = last.pre.users /\ events = last.pre.events

\* C3: after concurrent award calls have all returned (no store operation
\* having thrown), no increment is lost: every balance equals the sum of the
\* account's transactions.
C3_NoLostIncrement ==
    (Quiescent /\ faults.read + faults.write = 0) => BalancesMatchLog

\* C4: award with amount <= 0 fails with InvalidAmount before any store
\* access; award to an unknown account fails (with AccountNotFound whenever
\* the lookup itself did not throw); neither performs a write.
C4_InvalidAmountAndUnknownAccount ==
    (Quiescent /\ last.op = "award") =>
        /\ last.amount <= 0 =>
              /\ ~last.success
              /\ last.res = "Points amount must be positive"
              /\ last.reads = 0 /\ last.writes = 0
              /\ StoreUnchangedByLast
        /\ (last.amount > 0 /\ ~last.pre.users[last.uid].exists) =>
              /\ ~last.success
              /\ last.res \in {"User not found", "Failed to award points"}
              /\ faults.read = 0 => last.res = "User not found"
              /\ last.writes = 0
              /\ StoreUnchangedByLast

\* C4 witness: after a recorded award, a call with amount 0 was refused
C4_Witness ==
    /\ Quiescent
    /\ last.op = "award"
    /\ last.amount = 0
    /\ last.res = "Points amount must be positive"
    /\ Len(events) >= 1

----------------------------------------------------------------------------
(* Claims about the task lifecycle *)

TaskReasons == {"task_completed", "task_approved"}

\* the balance writes made for the reward of task t to account u
TaskCredits(u, t) ==
    {i \in 1..Len(credits) :
        credits[i].userId = u /\ credits[i].ref = t
        /\ credits[i].reason \in TaskReasons}

\* the points transactions recorded for the reward of task t to account u
TaskTransactions(u, t) ==
    EventsFor(events, u, "task_completed", t)
        \cup EventsFor(events, u, "task_approved", t)

\* C5: across any sequence of submit, complete, approve, reject calls and
\* administrator edits of the task, the reward of a task is credited to an
\* account at most once (one balance write, one transaction at most).
C5_TaskRewardAtMostOnce ==
    \A u \in UserIds, t \in TaskIds :
        /\ Cardinality(TaskCredits(u, t)) <= 1
        /\ Cardinality(TaskTransactions(u, t)) <= 1

\* C5 witness: the reward was credited and a later attempt on the same
\* record was refused
C5_Witness ==
    /\ Quiescent
    /\ Cardinality(TaskCredits("u1", "k1")) = 1
    /\ userTasks[<<"u1", "k1">>].status = "approved"
    /\ last.op = "complete"
    /\ last.res = "Task already completed"

\* C6: completeTask on a record that an earlier completeTask has completed
\* (account registered, task active and direct, no store operation throwing)
\* returns Conflict 'Task already completed' and changes nothing, leaving
\* exactly one points transaction when the first call awarded; and a first
\* call on a task with pointsReward > 0 records exactly one transaction.
C6_CompleteTwiceAwardsOnce ==
    (Quiescent /\ last.op = "complete") =>
        LET k == <<last.uid, last.tid>>
            before == last.pre.userTasks[k]
            n == Cardinality(TaskTransactions(last.uid, last.tid)) IN
        /\ ( /\ last.pre.users[last.uid].exists
             /\ tasks[last.tid].exists /\ tasks[last.tid].isActive
             /\ ~tasks[last.tid].requiresVerification
             /\ before.exists /\ before.status = "completed"
             /\ last.res # ServerError )
           => /\ last.res = "Task already completed"
              /\ StoreUnchangedByLast
              /\ n <= 1
              /\ before.pointsAwarded => n = 1
        /\ (last.res = Ok /\ last.reward > 0 /\ faults.read + faults.write = 0)
           => /\ userTasks[k].status = "completed"
              /\ userTasks[k].pointsAwarded
              /\ n = 1

\* C6 witness: the second completeTask call was refused, one transaction
C6_Witness ==
    /\ Quiescent
    /\ last.op = "complete"
    /\ last.res = "Task already completed"
    /\ last.pre.userTasks[<<"u1", "k1">>].status = "completed"
    /\ userTasks[<<"u1", "k1">>].pointsAwarded
    /\ Cardinality(TaskTransactions("u1", "k1")) = 1

----------------------------------------------------------------------------
(* Claims about the referral tracker *)

\* the referrer of account u as the last handler found the store
ReferrerBefore(u) ==
    IF \E r \in UserIds :
          /\ last.pre.users[r].exists
          /\ last.pre.users[r].renopaysTag # NoId
          /\ last.pre.users[r].renopaysTag = last.pre.users[u].referredBy
    THEN CHOOSE r \in UserIds :
          /\ last.pre.users[r].exists
          /\ last.pre.users[r].renopaysTag # NoId
          /\ last.pre.users[r].renopaysTag = last.pre.users[u].referredBy
    ELSE NoId

ReferralEvent(r, u) ==
    [userId |-> r, amount |-> ReferrerReward, reason |-> "referral_completed",
     ref |-> u]

BonusEvent(u) ==
    [userId |-> u, amount |-> ReferredReward, reason |-> "referral_bonus",
     ref |-> u]

\* C7: a checkCompletion call for a fully verified referred account in which
\* both awards succeed (and no store operation throws) sets pointsAwarded,
\* raises the referrer's balance by 150, the referred account's by 100 and
\* the referrer's successfulReferrals by 1; a later call for an account whose
\* referral already has pointsAwarded changes no balance and no counter.
C7_ReferralRewardedOnce ==
    (Quiescent /\ last.op = "check" /\ ReferrerBefore(last.uid) # NoId) =>
        LET u == last.uid
            r == ReferrerBefore(u)
            k == <<r, u>> IN
        /\ (last.res = Ok /\ last.first /\ last.second) =>
              /\ referrals[k].pointsAwarded
              /\ users[r].points = last.pre.users[r].points + 150
              /\ users[u].points = last.pre.users[u].points + 100
              /\ users[r].successfulReferrals =
                    last.pre.users[r].successfulReferrals + 1
              /\ \A o \in UserIds \ {r, u} : users[o] = last.pre.users[o]
        /\ last.pre.referrals[k].pointsAwarded =>
              /\ users = last.pre.users
              /\ events = last.pre.events

\* C7 witness: a second check of an already rewarded referral has returned
C7_Witness ==
    /\ Quiescent
    /\ last.op = "check" /\ last.uid = "u2" /\ last.res = Ok
    /\ last.pre.referrals[<<"u1", "u2">>].pointsAwarded
    /\ users["u1"].points = 150 /\ users["u2"].points = 100
    /\ users["u1"].successfulReferrals = 1

\* C8: a checkCompletion call that ran the reward step leaves pointsAwarded
\* true only if both of its awards succeeded (both transactions are then the
\* last two of the log); if either failed, pointsAwarded is still false and
\* allVerificationsComplete is true.
C8_AwardedOnlyIfBothSucceed ==
    (Quiescent /\ last.op = "check" /\ last.awards > 0) =>
        LET u == last.uid
            r == ReferrerBefore(u)
            k == <<r, u>> IN
        /\ ~last.pre.referrals[k].pointsAwarded
        /\ referrals[k].pointsAwarded =>
              /\ last.first /\ last.second
              /\ events = last.pre.events \o <<ReferralEvent(r, u), BonusEvent(u)>>
        /\ ~(last.first /\ last.second) =>
              /\ ~referrals[k].pointsAwarded
              /\ referrals[k].allVerificationsComplete

\* C8 witness: the referrer's award succeeded, the referred account's failed
C8_Witness ==
    /\ Quiescent
    /\ last.op = "check" /\ last.uid = "u2"
    /\ last.awards = 2 /\ last.first /\ ~last.second
    /\ ~referrals[<<"u1", "u2">>].pointsAwarded
    /\ referrals[<<"u1", "u2">>].allVerificationsComplete

\* the referral records of referrer r whose reward has been paid
AwardedReferrals(r) ==
    {u \in UserIds : referrals[<<r, u>>].exists /\ referrals[<<r, u>>].pointsAwarded}

\* C9: successfulReferrals is unchanged by a checkCompletion call in which
\* either award failed, and never exceeds the number of the referrer's
\* referral records with pointsAwarded = true.
C9_CounterOnlyWhenBothSucceed ==
    Quiescent =>
        /\ \A r \in UserIds :
              users[r].successfulReferrals <= Cardinality(AwardedReferrals(r))
        /\ (last.op = "check" /\ last.awards > 0 /\ ~(last.first /\ last.second))
              => \A r \in UserIds :
                    users[r].successfulReferrals =
                        last.pre.users[r].successfulReferrals

\* a referral whose verifications are complete and whose reward is unpaid
RewardPending(k) ==
    /\ referrals[k].exists
    /\ referrals[k].allVerificationsComplete
    /\ ~referrals[k].pointsAwarded

\* the last handler was a check that found its referral complete and unpaid
RetriedCheck ==
    /\ Quiescent
    /\ last.op = "check"
    /\ ReferrerBefore(last.uid) # NoId
    /\ last.pre.referrals[<<ReferrerBefore(last.uid), last.uid>>].exists
    /\ last.pre.referrals[<<ReferrerBefore(last.uid), last.uid>>].allVerificationsComplete
    /\ ~last.pre.referrals[<<ReferrerBefore(last.uid), last.uid>>].pointsAwarded

\* C10: a checkCompletion call that finds its referral record complete but
\* unpaid runs the reward step again (both awards are attempted unless a
\* store operation of the handler itself throws); and when checks keep being
\* made and the store stops throwing, every complete but unpaid referral is
\* eventually paid.
C10_RewardRetriedUntilPaid ==
    /\ [](RetriedCheck /\ last.res = Ok => last.awards = 2)
    /\ \A k \in UserIds \X UserIds :
          RewardPending(k) ~> referrals[k].pointsAwarded

\* C10 witness: a retry after a failed award has paid the reward
C10_Witness ==
    /\ RetriedCheck
    /\ last.uid = "u2"
    /\ last.awards = 2
    /\ referrals[<<"u1", "u2">>].pointsAwarded

----------------------------------------------------------------------------
(* Claims about concurrent completion checks *)

\* the balance writes made to account `to` for the referral of account u
ReferralCredits(to, reason, u) ==
    {i \in 1..Len(credits) :
        credits[i].userId = to /\ credits[i].reason = reason
        /\ credits[i].ref = u}

\* the check handlers that are in their reward step
AtRewardStep(p) ==
    calls[p].op = "check" /\ calls[p].pc \in {"award1", "award2"}

\* C11: a checkCompletion call decides on the copy of the referral it read:
\* every call that read pointsAwarded = false for a fully verified account
\* runs the reward step, whatever another call has written since, so two
\* concurrent calls on one referral can both run it and the referrer is
\* credited 150 and the referred account 100 once per call.
C11_ConcurrentChecksDoublePay ==
    /\ \A p \in Procs : AtRewardStep(p) =>
          /\ AllComplete(calls[p].user)
          /\ ~calls[p].referral.pointsAwarded
    /\ \A i \in 1..Len(credits) :
          /\ credits[i].reason = "referral_completed" => credits[i].amount = 150
          /\ credits[i].reason = "referral_bonus" => credits[i].amount = 100

\* C11 witness: one referral, paid twice: the referrer holds 300 and the
\* referred account 200 after two concurrent checks of account u2
C11_Witness ==
    /\ Quiescent
    /\ referrals[<<"u1", "u2">>].pointsAwarded
    /\ ~referrals[<<"u1", "u3">>].exists
    /\ Cardinality(ReferralCredits("u1", "referral_completed", "u2")) = 2
    /\ Cardinality(ReferralCredits("u2", "referral_bonus", "u2")) = 2
    /\ events = <<ReferralEvent("u1", "u2"), BonusEvent("u2"),
                  ReferralEvent("u1", "u2"), BonusEvent("u2")>>
    /\ users["u1"].points = 300
    /\ users["u2"].points = 200

\* the task request that returned last found its account registered and its
\* task active, and no store operation of it threw
LastTaskCallServed ==
    /\ Quiescent
    /\ last.op \in {"submit", "complete", "approve", "reject"}
    /\ last.pre.users[last.uid].exists
    /\ tasks[last.tid].exists /\ tasks[last.tid].isActive
    /\ last.res # ServerError

\* the responses that report a Conflict
ConflictResponses ==
    {"Task already completed", "This task requires submission for review",
     "Submission is not in submitted status"}

\* C17: submitTask with a valid URL on a rejected record is accepted and
\* sets the status to submitted with the new link; submitTask on an approved
\* or completed record is refused with Conflict and changes nothing.
C17_ResubmissionLoop ==
    (LastTaskCallServed /\ last.op = "submit" /\ ValidUrl(last.arg)) =>
        LET k == <<last.uid, last.tid>>
            before == last.pre.userTasks[k] IN
        /\ (before.exists /\ before.status = "rejected") =>
              /\ last.res = Ok
              /\ userTasks[k] = [before EXCEPT !.status = "submitted",
                                               !.submissionLink = last.arg]
              /\ users = last.pre.users /\ events = last.pre.events
        /\ (before.exists /\ before.status \in {"approved", "completed"}) =>
              /\ last.res = "Task already completed"
              /\ StoreUnchangedByLast

\* C17 witness: a rejected submission has been submitted again
C17_Witness ==
    /\ LastTaskCallServed
    /\ last.op = "submit" /\ last.res = Ok
    /\ last.pre.userTasks[<<"u1", "k1">>].status = "rejected"
    /\ userTasks[<<"u1", "k1">>].status = "submitted"
    /\ userTasks[<<"u1", "k1">>].submissionLink = last.arg
    /\ userTasks[<<"u1", "k1">>].rejectionReason = "spam"

\* C18: approveSubmission goes on only when the status it read is submitted;
\* it sets the status to approved with the reviewer, credits
\* task.pointsReward, sets pointsAwarded only after a successful award, and
\* never awards for a record whose pointsAwarded is already true.
C18_ApproveAwardsGuarded ==
    /\ \A p \in Procs :
          (calls[p].op = "approve" /\ calls[p].pc \in {"write", "award"}) =>
              calls[p].ut.status = "submitted"
    /\ \A p \in Procs :
          (calls[p].op = "approve" /\ calls[p].pc = "award") =>
              /\ userTasks[<<calls[p].uid, calls[p].tid>>].reviewedBy = "admin"
              /\ calls[p].aw.amount = calls[p].task.pointsReward
              /\ ~calls[p].ut.pointsAwarded
    /\ \A p \in Procs :
          (calls[p].op = "approve" /\ calls[p].pc = "ret" /\ calls[p].awarded) =>
              calls[p].aw.success

\* C19: rejectSubmission succeeds only when the status is submitted; it sets
\* the status to rejected with the given reason (the default reason when
\* none is given) and changes no balance, no transaction and no
\* pointsAwarded.
C19_RejectPerformsNoReward ==
    (Quiescent /\ last.op = "reject") =>
        LET k == <<last.uid, last.tid>>
            before == last.pre.userTasks[k] IN
        /\ last.res = Ok =>
              /\ before.exists /\ before.status = "submitted"
              /\ userTasks[k] =
                    [before EXCEPT
                        !.status = "rejected", !.reviewedBy = "admin",
                        !.rejectionReason =
                            IF last.arg = NoId
                            THEN "Submission does not meet requirements"
                            ELSE last.arg]
        /\ last.res # Ok => userTasks = last.pre.userTasks
        /\ users = last.pre.users
        /\ events = last.pre.events
        /\ userTasks[k].pointsAwarded = before.pointsAwarded

\* C19 witness: a submission was rejected without a reason
C19_Witness ==
    /\ Quiescent
    /\ last.op = "reject" /\ last.res = Ok /\ last.arg = NoId
    /\ userTasks[<<"u1", "k1">>].status = "rejected"
    /\ userTasks[<<"u1", "k1">>].rejectionReason =
          "Submission does not meet requirements"
    /\ ~userTasks[<<"u1", "k1">>].pointsAwarded

\* C20: a task operation that ends in Conflict has written nothing (record,
\* balances and transaction log are as before the call), and the wrong-state
\* calls are the ones that end so: submit on approved/completed, complete on
\* completed/approved or on a requires-review task, approve or reject on a
\* record that is not submitted.
C20_ConflictWritesNothing ==
    (Quiescent /\ last.op \in {"submit", "complete", "approve", "reject"}) =>
        LET k == <<last.uid, last.tid>>
            before == last.pre.userTasks[k]
            done == before.exists /\ before.status \in {"approved", "completed"} IN
        /\ last.res \in ConflictResponses => StoreUnchangedByLast
        /\ (last.op \in {"approve", "reject"} /\ last.res # ServerError
              /\ before.exists /\ before.status # "submitted")
           => last.res = "Submission is not in submitted status"
        /\ (last.op = "complete" /\ LastTaskCallServed) =>
              /\ tasks[last.tid].requiresVerification
                    => last.res = "This task requires submission for review"
              /\ (~tasks[last.tid].requiresVerification /\ done)
                    => last.res = "Task already completed"
        /\ (last.op = "submit" /\ LastTaskCallServed /\ ValidUrl(last.arg) /\ done)
              => last.res = "Task already completed"

\* C20 witness: completeTask on an approved record was refused after the
\* reward of the approval had been recorded
C20_Witness ==
    /\ Quiescent
    /\ last.op = "complete" /\ last.res = "Task already completed"
    /\ last.pre.userTasks[<<"u1", "k1">>].status = "approved"
    /\ Len(events) = 1
    /\ users["u1"].points = 5

\* C14: pointsAwarded of a ReferralRecord and of a TaskCompletionRecord only
\* changes from false to true: no step of checkCompletion, the signup upsert,
\* submit, resubmit, complete, approve or reject sets it back to false.
C14_PointsAwardedNeverReset ==
    [][/\ \A k \in UserIds \X TaskIds :
            userTasks[k].pointsAwarded => userTasks'[k].pointsAwarded
       /\ \A k \in UserIds \X UserIds :
            referrals[k].pointsAwarded => referrals'[k].pointsAwarded]_vars

\* C14 witness: the signup upsert has written a referral whose reward was
\* paid, and the task record of u2 is rewarded too
C14_Witness ==
    /\ Quiescent
    /\ last.op = "signup" /\ last.res = Ok
    /\ last.pre.referrals[<<"u1", "u3">>].pointsAwarded
    /\ last.pre.referrals[<<"u1", "u3">>].status = "completed"
    /\ referrals[<<"u1", "u3">>].status = "pending"
    /\ referrals[<<"u1", "u3">>].pointsAwarded
    /\ userTasks[<<"u2", "k1">>].pointsAwarded

\* C16: in every reachable state there is at most one ReferralRecord per
\* (referrer, referred email) pair and at most one TaskCompletionRecord per
\* (account, task) pair, also when first-time submit and complete calls, or
\* a signup and a first completion check, race on one pair.
C16_OneRecordPerPair ==
    /\ \A k \in UserIds \X UserIds :
          /\ referrals[k].copies <= 1
          /\ referrals[k].exists <=> referrals[k].copies = 1
    /\ \A k \in UserIds \X TaskIds :
          /\ userTasks[k].copies <= 1
          /\ userTasks[k].exists <=> userTasks[k].copies = 1

\* C16 witness: a completion check that had found no referral lost the race
\* against the signup that inserted it, and its insert was refused; the task
\* record of u2 exists once
C16_Witness ==
    /\ Quiescent
    /\ last.op = "check" /\ last.uid = "u3" /\ last.res = ServerError
    /\ ~last.pre.referrals[<<"u1", "u3">>].exists
    /\ referrals[<<"u1", "u3">>].copies = 1
    /\ ~referrals[<<"u1", "u3">>].allVerificationsComplete
    /\ userTasks[<<"u2", "k1">>].copies = 1

\* position of a status in the lifecycle
StatusRank(status) ==
    IF status = "pending" THEN 0
    ELSE IF status = "submitted" THEN 1
    ELSE IF status = "rejected" THEN 2
    ELSE 3

\* a change of a record's status that the lifecycle allows
StatusMovesForward(old, new) ==
    \/ ~old.exists
    \/ new.status = old.status
    \/ /\ new.status # "pending"
       /\ old.status \notin {"approved", "completed"}
       /\ \/ StatusRank(new.status) > StatusRank(old.status)
          \/ old.status = "rejected" /\ new.status = "submitted"

\* C15: the status of a TaskCompletionRecord only moves forward: it never
\* returns to pending, never leaves approved or completed, and the only
\* step back is rejected -> submitted.
C15_StatusOnlyMovesForward ==
    [][\A k \in UserIds \X TaskIds :
          /\ userTasks[k].exists => userTasks'[k].exists
          /\ StatusMovesForward(userTasks[k], userTasks'[k])]_vars

\* C12: under any interleaving of concurrent approveSubmission and
\* completeTask calls on one (account, task) record, the task reward is
\* credited at most once: at most one points transaction for the completion
\* and a balance raised by the reward at most once.
C12_ConcurrentRewardAtMostOnce ==
    \A u \in UserIds, t \in TaskIds :
        /\ Cardinality(TaskTransactions(u, t)) <= 1
        /\ users[u].points <= tasks[t].pointsReward

\* C13: two concurrent checkCompletion calls for two different referred
\* accounts of one referrer, both with successful awards, leave the
\* referrer's balance 300 higher and successfulReferrals 2 higher.
C13_DistinctReferralsDoNotInterfere ==
    ( /\ Quiescent
      /\ referrals[<<"u1", "u2">>].pointsAwarded
      /\ referrals[<<"u1", "u3">>].pointsAwarded
      /\ Cardinality(ReferralCredits("u1", "referral_completed", "u2")) = 1
      /\ Cardinality(ReferralCredits("u1", "referral_completed", "u3")) = 1 )
    => /\ users["u1"].points = 300
       /\ users["u1"].successfulReferrals = 2

----------------------------------------------------------------------------
(* Claims about the two paths of a task and the retry of its reward *)

\* C21: the direct path and the review path are disjoint: completeTask is
\* accepted only for tasks with requiresVerification = false and submitTask
\* only for tasks with requiresVerification = true, so the record of a
\* direct-path task is never submitted, approved or rejected and the record
\* of a review-path task is never completed.
C21_PathsDisjoint ==
    /\ (Quiescent /\ last.op = "complete" /\ last.res = Ok) =>
          ~tasks[last.tid].requiresVerification
    /\ (Quiescent /\ last.op = "submit" /\ last.res = Ok) =>
          tasks[last.tid].requiresVerification
    /\ \A u \in UserIds, t \in TaskIds :
          userTasks[<<u, t>>].exists =>
              IF tasks[t].requiresVerification
              THEN userTasks[<<u, t>>].status # "completed"
              ELSE userTasks[<<u, t>>].status
                      \notin {"submitted", "approved", "rejected"}

\* C22: when the award fails inside completeTask or approveSubmission the
\* call is not reported as an error and the record keeps
\* pointsAwarded = false; a later call on that record, still unpaid, is not
\* turned away as a Conflict but retries the reward.
C22_FailedAwardIsRetried ==
    (LastTaskCallServed /\ last.op \in {"complete", "approve"}
        /\ last.reward > 0) =>
        LET k == <<last.uid, last.tid>>
            before == last.pre.userTasks[k]
            done == IF last.op = "complete" THEN "completed" ELSE "approved" IN
        /\ ( /\ userTasks[k].status = done
              /\ ~(before.exists /\ before.status = done)
              /\ events = last.pre.events )
           => /\ last.res = Ok
              /\ ~userTasks[k].pointsAwarded
        /\ ( /\ before.exists /\ before.status = done
              /\ ~before.pointsAwarded
              /\ TaskTransactions(last.uid, last.tid) = {} )
           => last.res \notin ConflictResponses

----------------------------------------------------------------------------
(* Claims about the life of a referral record *)

\* C29: every checkCompletion call for a referred account that has a
\* referrer copies the four current verification flags of the account into
\* its referral record, also when not all four are true and the verdict is
\* "not complete".
C29_FlagsCopiedOnEveryCheck ==
    (Quiescent /\ last.op = "check" /\ last.res # ServerError) =>
        LET user == last.pre.users[last.uid]
            r == UserWithTag(user.referredBy)
            referral == referrals[<<r, last.uid>>] IN
        (user.exists /\ user.referredBy # NoId /\ r # NoId) =>
            /\ referral.exists
            /\ referral.emailVerified = user.emailVerified
            /\ referral.telegramVerified = user.telegramVerified
            /\ referral.telegramFollowed = user.telegramFollowed
            /\ referral.renopaysTagCreated = (user.renopaysTag # NoId)

\* C30: a ReferralRecord only moves uninitialized -> pending -> complete: no
\* step deletes it, turns allVerificationsComplete from true to false,
\* clears completedAt or takes its status from completed back to pending.
C30_ReferralOnlyMovesForward ==
    [][\A k \in UserIds \X UserIds :
          referrals[k].exists =>
              /\ referrals'[k].exists
              /\ referrals[k].allVerificationsComplete
                    => referrals'[k].allVerificationsComplete
              /\ referrals[k].completedAt => referrals'[k].completedAt
              /\ referrals[k].status = "completed"
                    => referrals'[k].status = "completed"]_vars

----------------------------------------------------------------------------
(* Claims about the ban gate *)

\* the request that returned last went through the gate, whose read found
\* the account banned
GateSawBan ==
    /\ Quiescent
    /\ last.op \in GatedRoutes
    /\ last.at # NoTime
    /\ last.pre.users[last.uid].exists
    /\ last.pre.users[last.uid].banned

RewardActions == {"submit", "complete", "check", "telegram"}

\* C25: every reward-eligible action evaluates the gate for the acting
\* account first: a request made and answered while the account's ban is
\* unexpired (and no store operation throws) is not served and changes no
\* completion record, no referral record and no balance.
C25_BannedAccountEarnsNothing ==
    (Quiescent /\ last.op \in RewardActions
        /\ faults.read + faults.write = 0
        /\ last.pre.users[last.uid].exists
        /\ last.pre.users[last.uid].banned
        /\ ~BanExpired(last.pre.users[last.uid].bannedUntil, now)) =>
        /\ last.res # Ok
        /\ userTasks = last.pre.userTasks
        /\ referrals = last.pre.referrals
        /\ events = last.pre.events
        /\ \A u \in UserIds : users[u].points = last.pre.users[u].points

----------------------------------------------------------------------------
(* Claims about the bot scorer *)

\* the signup request that returned last was evaluated by the scorer
Evaluated == Quiescent /\ last.op = "signup" /\ last.at # NoTime

\* the signup events of the request's address within the hour before the
\* evaluation, as the store held them when the request arrived
PriorFromIp ==
    Cardinality({i \in 1..Len(last.pre.signups) :
                    /\ last.pre.signups[i].ip = last.ip
                    /\ last.pre.signups[i].at >= last.at - HourTicks})

\* the signals that matched the request when it arrived
MatchedBefore ==
    {i \in 1..Len(last.pre.signals) :
        \/ last.pre.signals[i].email = last.uid
        \/ last.pre.signals[i].ipAddress = last.ip
        \/ last.pre.signals[i].fingerprint = Fingerprint(last.ip, last.ua)}

\* the most recently created of them blocks
LatestMatchBlocks ==
    \E i \in MatchedBefore :
        /\ \A j \in MatchedBefore : j <= i
        /\ last.pre.signals[i].blocked

\* the score of the most recently created of them, 0 when there is none
LatestMatchScore ==
    IF MatchedBefore = {} THEN 0
    ELSE last.pre.signals[CHOOSE i \in MatchedBefore :
                             \A j \in MatchedBefore : j <= i].suspiciousScore

\* the signal a request leaves behind
SignalOfLast(score, blocked) ==
    [found |-> TRUE, email |-> last.uid, ipAddress |-> last.ip,
     fingerprint |-> Fingerprint(last.ip, last.ua),
     suspiciousScore |-> score, blocked |-> blocked]

\* C26: with exactly 2 prior signup events of an address within the hour,
\* the next signup attempt from it is blocked with TooManyFromIP and a
\* blocked signal of score 100 is persisted; with exactly 1 prior event the
\* attempt is not blocked by the address rule.
C26_ThirdSignupFromIpBlocked ==
    (Evaluated /\ last.res # TooManyFromEmail) =>
        /\ PriorFromIp = 2 =>
              /\ last.res = TooManyFromIP
              /\ signals = Append(last.pre.signals, SignalOfLast(100, TRUE))
        /\ PriorFromIp = 1 =>
              /\ last.res # TooManyFromIP
              /\ \A i \in 1..Len(signals) :
                    i > Len(last.pre.signals) => ~signals[i].blocked

----------------------------------------------------------------------------
(* Claims about failed calls, reward conditions and signups *)

\* C31: approveSubmission fails atomically: whenever the call ends in an
\* error (not found, not in submitted status, or a failure raised during the
\* call, such as the task definition having been deleted after submission),
\* the status, the review fields and pointsAwarded of the record are the same
\* as before the call.
C31_ApproveFailsAtomically ==
    (Quiescent /\ last.op = "approve" /\ last.res # Ok) =>
        LET before == last.pre.userTasks[<<last.uid, last.tid>>]
            after == userTasks[<<last.uid, last.tid>>] IN
        /\ after.status = before.status
        /\ after.reviewedBy = before.reviewedBy
        /\ after.completedAt = before.completedAt
        /\ after.pointsAwarded = before.pointsAwarded

\* the four verifications of the completion condition, read off an account
FullyVerified(user) ==
    /\ user.emailVerified
    /\ user.telegramVerified
    /\ user.telegramFollowed
    /\ user.renopaysTag # NoId

\* C32: checkCompletion credits the referral rewards (150 to the referrer,
\* 100 to the referred account) only in a call where emailVerified,
\* telegramVerified, telegramFollowed and tag-created are all true on the
\* referred account; consequently every ReferralRecord with pointsAwarded =
\* true also has allVerificationsComplete = true.
C32_RewardOnlyWhenAllVerified ==
    /\ \A p \in Procs : AtRewardStep(p) =>
          /\ FullyVerified(calls[p].user)
          /\ FullyVerified(users[calls[p].uid])
    /\ \A i \in 1..Len(credits) :
          /\ credits[i].reason = "referral_completed" =>
                credits[i].amount = 150 /\ FullyVerified(users[credits[i].ref])
          /\ credits[i].reason = "referral_bonus" =>
                credits[i].amount = 100 /\ FullyVerified(users[credits[i].userId])
    /\ \A k \in UserIds \X UserIds :
          referrals[k].pointsAwarded => referrals[k].allVerificationsComplete

\* C32 witness: the referral of the fully verified account u2 was rewarded:
\* 150 to its referrer u1, 100 to u2, and the record is marked
C32_Witness ==
    /\ Quiescent
    /\ last.op = "check" /\ last.uid = "u2"
    /\ FullyVerified(users["u2"])
    /\ referrals[<<"u1", "u2">>].pointsAwarded
    /\ referrals[<<"u1", "u2">>].allVerificationsComplete
    /\ users["u1"].points = 150
    /\ users["u2"].points = 100

\* C33: for every TaskCompletionRecord, pointsAwarded = true implies that
\* its status is completed or approved and that a points transaction
\* crediting the task's reward (> 0) to that account was recorded; a
\* completion of a task with pointsReward = 0 never sets pointsAwarded and
\* never appends a transaction.
C33_AwardedMeansDoneAndPaid ==
    /\ \A u \in UserIds, t \in TaskIds :
          userTasks[<<u, t>>].pointsAwarded =>
             /\ userTasks[<<u, t>>].status \in {"completed", "approved"}
             /\ \E i \in TaskTransactions(u, t) : events[i].amount > 0
    /\ \A p \in Procs :
          (calls[p].op = "complete" /\ calls[p].pc \in {"award", "ret"}
              /\ calls[p].task.pointsReward = 0) =>
             /\ ~calls[p].awarded
             /\ calls[p].aw = IdleAward

\* the accounts whose tag the referral code of the last signup named
CodeHolders ==
    {r \in UserIds : /\ last.arg # NoId
                     /\ last.pre.users[r].exists
                     /\ last.pre.users[r].renopaysTag = last.arg}

\* C34: a signup that carries a referral code matching an existing account's
\* tag stores that referrer on the new account and leaves exactly one
\* ReferralRecord for (referrer, new email), pending, with pointsAwarded =
\* false, and no balance changes; a signup with an unknown referral code
\* creates no ReferralRecord and stores no referrer.
C34_SignupReferral ==
    (Quiescent /\ last.op = "signup" /\ last.res = Ok) =>
        /\ \A r \in CodeHolders :
              /\ users[last.uid].referredBy = last.arg
              /\ referrals[<<r, last.uid>>].exists
              /\ referrals[<<r, last.uid>>].copies = 1
              /\ referrals[<<r, last.uid>>].status = "pending"
              /\ ~referrals[<<r, last.uid>>].pointsAwarded
        /\ CodeHolders = {} =>
              /\ users[last.uid].referredBy = NoId
              /\ referrals = last.pre.referrals
        /\ \A u \in UserIds \ {last.uid} : users[u] = last.pre.users[u]
        /\ users[last.uid].points = 0
        /\ events = last.pre.events

----------------------------------------------------------------------------
(* Claims about the bot scorer on a store that starts empty *)

\* the BotDetection collection held no signal when the run started: every
\* signal it holds was persisted by a request of the run (signals are never
\* deleted, and the signals of earlier activity carry no fingerprint of a
\* request)
FreshStore == \A i \in 1..Len(signals) : signals[i].fingerprint # <<>>

\* C35: starting from an empty BotSignal store, every signal the scorer
\* ever persists has blocked = true and score = 100: the step-4 score of an
\* allowed request is always 0 or 20, so the non-blocking branch
\* (score >= 50) is never taken.
C35_OnlyBlockingSignals ==
    FreshStore =>
        /\ \A i \in 1..Len(signals) :
              signals[i].blocked /\ signals[i].suspiciousScore = 100
        /\ \A p \in Procs : calls[p].pc # "botSignal"
        /\ (Evaluated /\ last.res \notin
                {TooManyFromEmail, TooManyFromIP, SecurityBlock})
              => last.score \in {0, 20}

\* C35 witness: after one blocked signup had left its signal, a signup with
\* a short user-agent from another address was let through with score 20
C35_Witness ==
    /\ FreshStore
    /\ Evaluated
    /\ Len(signals) = 1
    /\ last.pre.signals = signals
    /\ last.ip = "ip2" /\ last.ua = "curl/8.40"
    /\ last.res = Ok
    /\ last.score = 20

C37_AtMostThreePerWindow ==
    \A ip \in Ips, t \in 0..MaxTime :
        Cardinality({i \in 1..Len(signups) :
                        /\ signups[i].ip = ip
                        /\ signups[i].at >= t
                        /\ signups[i].at <= t + HourTicks}) <= 3

----------------------------------------------------------------------------
(* Claims about bans under concurrent requests, and about the bonuses *)

\* C38: in every reachable state an account with banned = false has neither
\* a ban reason nor a ban expiry stored: the administrator's ban sets the
\* three fields together, and the administrator's unban and the lazy expiry
\* (in the gate, at login and on the profile and dashboard reads) clear the
\* three together.
C38_UnbannedHasNoBanData ==
    \A u \in UserIds :
        ~users[u].banned =>
            users[u].banReason = NoId /\ users[u].bannedUntil = NoTime

\* C39: under any interleaving of the gate with the administrator's bans of
\* the same account, a ban that is unexpired (until unset or in the future)
\* at the moment the gate's write is applied is never cleared by the gate;
\* only an explicit unban or the passing of until ends it.
C39_GateNeverLiftsLiveBan ==
    [][\A p \in Procs :
          (calls[p].pc = "gateSave" /\ calls'[p].pc # "gateSave") =>
              LET stored == users[calls[p].uid] IN
              (stored.banned
                  /\ (stored.bannedUntil = NoTime \/ stored.bannedUntil >= now))
                 => users'[calls[p].uid].banned]_vars

\* the balance writes made to account u for a bonus
BonusCredits(u, reason) ==
    {i \in 1..Len(credits) : credits[i].userId = u /\ credits[i].reason = reason}

\* C40: the telegram-verification bonus (200 points) and the tag-creation
\* bonus (100 points) are each credited at most once per account, however
\* many times the verify-telegram and renopays-tag operations are
\* successfully called for that account.
C40_BonusesPaidOnce ==
    \A u \in UserIds :
        /\ Cardinality(BonusCredits(u, "telegram_verified")) <= 1
        /\ Cardinality(BonusCredits(u, "tag_created")) <= 1

====
